---- MODULE Spec2Model ----
(***************************************************************************)
(* Model of the I-Club monthly report: the formatter                       *)
(* (src/email_formatter.py), the query job (src/main.py), the e-mail       *)
(* service (src/email_service.py) and the report month (src/main.py,       *)
(* src/check_system.py).                                                   *)
(* The EmailFormatter methods are operators over the formatter's fields    *)
(* (data, report_month); each specification draws the inputs of one group  *)
(* of methods from bounded sets and applies the methods to them.           *)
(*                                                                         *)
(* Python values: a number is [t |-> "int", n |-> k]; Python's None is     *)
(* [t |-> "None"]; a NaN (how pandas holds a NULL of a numeric column) is  *)
(* [t |-> "nan"].  A float that results from a division is an exact        *)
(* fraction [t |-> "num", num |-> a, den |-> b] in lowest terms, b > 0.    *)
(* Cells of the ranking and coupon tables are plain integers.              *)
(***************************************************************************)
EXTENDS Integers, Sequences, FiniteSets, TLC

VARIABLES
    pc,            \* "start" before the call, "done" after it
    data,          \* EmailFormatter.data: report name -> rows (a missing key is an absent table)
    report_month,  \* EmailFormatter.report_month as <<year, month>>
    args,          \* the arguments of the call under check
    ret,           \* what the call returned
    main,          \* run_report_job: where the main thread is
    task,          \* run_report_job: where the worker of each submitted query is
    runs,          \* how many times execute_query_and_save was entered for each query
    futures,       \* what each future holds: the tuple execute_query_and_save returned
    processed,     \* the futures the as_completed loop has consumed
    dataframes_dict,   \* query name -> the rows count of its DataFrame
    dataframes_lock,   \* the query whose worker holds the lock, or Free
    status_report,     \* the list of status lines
    status_lock,       \* the query whose worker holds the lock, or Free
    counters,          \* successful_queries, failed_queries, total_rows
    all_critical_success,
    log,           \* the lines run_report_job logged after the pool
    providers,     \* EmailService.providers, in list order
    config,        \* the EmailConfig of each provider
    mail,          \* send_notification: where the call is
    attempts,      \* the send attempts made, in order
    results,       \* what provider.send gave for each provider tried
    sent,          \* what send_notification returned
    today,         \* datetime.today() of a run
    report_month_str,  \* the YYYY-MM string each script computed
    folder_name    \* the month folder name each script computed

\* the fields of the formatter specifications
formatter == <<pc, data, report_month, args, ret>>

\* the state of run_report_job
jobvars ==
    <<main, task, runs, futures, processed, dataframes_dict, dataframes_lock,
      status_report, status_lock, counters, all_critical_success, log>>

\* the state of EmailService
mailvars == <<providers, config, mail, attempts, results, sent>>

\* the state of the report month computation
datevars == <<today, report_month_str, folder_name>>

restvars == <<mailvars, datevars>>

vars == <<formatter, jobvars, restvars>>

Free == "free"

\* run_report_job is not running
JobIdle ==
    /\ main = "idle"
    /\ task = <<>>
    /\ runs = <<>>
    /\ futures = <<>>
    /\ processed = {}
    /\ dataframes_dict = <<>>
    /\ dataframes_lock = Free
    /\ status_report = <<>>
    /\ status_lock = Free
    /\ counters = <<>>
    /\ all_critical_success = FALSE
    /\ log = <<>>

\* no EmailService was built and no report month computed
RestIdle ==
    /\ providers = <<>>
    /\ config = <<>>
    /\ mail = [pc |-> "idle"]
    /\ attempts = <<>>
    /\ results = <<>>
    /\ sent = "unset"
    /\ today = <<>>
    /\ report_month_str = <<>>
    /\ folder_name = <<>>

\* the EmailFormatter object
Self == [data |-> data, report_month |-> report_month]

----------------------------------------------------------------------------
(* Bounds *)

MaxVal == 6

----------------------------------------------------------------------------
(* Python values and arithmetic *)

None == [t |-> "None"]

NaN == [t |-> "nan"]

Num(k) == [t |-> "int", n |-> k]

Abs(k) == IF k < 0 THEN -k ELSE k

RECURSIVE GCD(_, _)
GCD(a, b) == IF b = 0 THEN a ELSE GCD(b, a % b)

\* a / b (Python true division, b # 0) as a fraction in lowest terms
Frac(a, b) ==
    LET g == GCD(Abs(a), Abs(b))
        s == IF b < 0 THEN -1 ELSE 1
    IN  [t |-> "num", num |-> (s * a) \div g, den |-> (s * b) \div g]

Zero == [t |-> "num", num |-> 0, den |-> 1]

\* f"{x:.<d>f}" of a fraction, scale = 10^d: the sign and the count of
\* units of 1/scale, rounded half to even
FmtDec(x, scale) ==
    LET a == scale * Abs(x.num)
        q == a \div x.den
        r == a % x.den
        up == (2 * r > x.den) \/ (2 * r = x.den /\ q % 2 = 1)
    IN  [neg |-> x.num < 0, units |-> IF up THEN q + 1 ELSE q]

\* f"{x:.1f}"
Fmt1(x) == [neg |-> x.num < 0, tenths |-> FmtDec(x, 10).units]

\* f"{x:.2f}"
Fmt2(x) == [neg |-> x.num < 0, hundredths |-> FmtDec(x, 100).units]

----------------------------------------------------------------------------
(* Text: a string is a sequence of one-character strings *)

Digit(d) == <<"0", "1", "2", "3", "4", "5", "6", "7", "8", "9">>[d + 1]

RECURSIVE Digits(_)
Digits(n) == IF n < 10 THEN <<Digit(n)>> ELSE Digits(n \div 10) \o <<Digit(n % 10)>>

\* the "," option of Python's format: a comma before every group of three digits
RECURSIVE Group3(_)
Group3(ds) ==
    IF Len(ds) <= 3 THEN ds
    ELSE Group3(SubSeq(ds, 1, Len(ds) - 3)) \o <<",">> \o SubSeq(ds, Len(ds) - 2, Len(ds))

\* f"{n:,.0f}" of an integer
FormatComma0(n) == (IF n < 0 THEN <<"-">> ELSE <<>>) \o Group3(Digits(Abs(n)))

\* f"{n:,.2f}" of an integer
FormatComma2(n) == FormatComma0(n) \o <<".", "0", "0">>

\* str.replace(a, b) for one-character a and b
Replace(str, a, b) == [i \in 1..Len(str) |-> IF str[i] = a THEN b ELSE str[i]]

\* mutant: the commas of the format are not replaced
format_number_comma(value) ==
    IF value.t = "int" THEN FormatComma0(value.n)
    ELSE IF value.t = "nan" THEN <<"n", "a", "n">>
    ELSE <<"N", "o", "n", "e">>

\* EmailFormatter.format_number; formatting None raises inside the try and
\* str(value) is returned
format_number(value) ==
    IF value.t = "int" THEN Replace(FormatComma0(value.n), ",", ".")
    ELSE IF value.t = "nan" THEN <<"n", "a", "n">>
    ELSE <<"N", "o", "n", "e">>

\* f"{x:,.2f}" of a fraction: the hundredths rounded half to even, the integer
\* part grouped, two decimals
FormatComma2Frac(x) ==
    LET u == FmtDec(x, 100).units
    IN  (IF x.num < 0 THEN <<"-">> ELSE <<>>)
        \o Group3(Digits(u \div 100)) \o <<".", Digit((u % 100) \div 10), Digit(u % 10)>>

\* mutant: the separators of the format are left as they are
format_currency_noswap(value) ==
    IF value.t = "int" THEN <<"R", "$", " ">> \o FormatComma2(value.n)
    ELSE IF value.t = "num" THEN <<"R", "$", " ">> \o FormatComma2Frac(value)
    ELSE IF value.t = "nan" THEN <<"R", "$", " ", "n", "a", "n">>
    ELSE <<"R", "$", " ", "N", "o", "n", "e">>

\* EmailFormatter.format_currency
format_currency(value) ==
    IF value.t = "int"
    THEN Replace(Replace(Replace(<<"R", "$", " ">> \o FormatComma2(value.n),
                                 ",", "X"), ".", ","), "X", ".")
    ELSE IF value.t = "num"
    THEN Replace(Replace(Replace(<<"R", "$", " ">> \o FormatComma2Frac(value),
                                 ",", "X"), ".", ","), "X", ".")
    ELSE IF value.t = "nan" THEN <<"R", "$", " ", "n", "a", "n">>
    ELSE <<"R", "$", " ", "N", "o", "n", "e">>

Unset == [t |-> "unset"]

NoArgs == [t |-> "noargs"]

NoData == [k \in {} |-> <<>>]

----------------------------------------------------------------------------
(* EmailFormatter.calculate_variation *)

Desc(kind, tenths) == [kind |-> kind, tenths |-> tenths]

Returned(variation, description) ==
    [raised |-> FALSE, variation |-> variation, description |-> description]

Raised(what) ==
    [raised |-> TRUE, variation |-> Zero, description |-> Desc(what, 0)]

\* mutant: the zero-baseline guard also asks for a non-zero current value,
\* so that 0 against 0 falls through to the division
calculate_variation_noguard(current, previous) ==
    IF previous.t = "int" /\ previous.n = 0 /\ current.t = "int" /\ current.n # 0
    THEN Returned(Zero, Desc("Novo", 0))
    ELSE Raised("ZeroDivisionError")

\* mutant: the difference taken as previous - current
calculate_variation_swapped(current, previous) ==
    IF previous.t = "int" /\ previous.n = 0
    THEN Returned(Zero, Desc("Novo", 0))
    ELSE IF current.t # "int" \/ previous.t # "int"
    THEN Raised("TypeError")
    ELSE LET variation == Frac(100 * (previous.n - current.n), previous.n)
         IN  IF variation.num > 0
             THEN Returned(variation, Desc("Aumento", Fmt1(variation).tenths))
             ELSE IF variation.num < 0
             THEN Returned(variation, Desc("Queda", Fmt1(variation).tenths))
             ELSE Returned(variation, Desc("Sem variação", 0))

calculate_variation(current, previous) ==
    IF previous.t = "int" /\ previous.n = 0
    THEN Returned(Zero, Desc("Novo", 0))
    ELSE IF current.t = "None" \/ previous.t = "None"
    THEN Raised("TypeError")
    ELSE IF current.t = "nan" \/ previous.t = "nan"
    THEN Returned(NaN, Desc("Sem variação", 0))
    ELSE LET variation == Frac(100 * (current.n - previous.n), previous.n)
         IN  IF variation.num > 0
             THEN Returned(variation, Desc("Aumento", Fmt1(variation).tenths))
             ELSE IF variation.num < 0
             THEN Returned(variation, Desc("Queda", Fmt1(variation).tenths))
             ELSE Returned(variation, Desc("Sem variação", 0))

----------------------------------------------------------------------------
(* Specification of calculate_variation on every pair of values *)

PyValues == {Num(k) : k \in (-MaxVal)..MaxVal} \cup {None, NaN}

DefaultMonth == <<2025, 6>>

InitCompare ==
    /\ pc = "start"
    /\ JobIdle
    /\ RestIdle
    /\ data = NoData
    /\ report_month = DefaultMonth
    /\ args \in [current : PyValues, previous : PyValues]
    /\ ret = Unset

CallCalculateVariation ==
    /\ pc = "start"
    /\ pc' = "done"
    /\ ret' = calculate_variation(args.current, args.previous)
    /\ UNCHANGED <<data, report_month, args, jobvars, restvars>>

NextCompare == CallCalculateVariation

SpecCompare == InitCompare /\ [][NextCompare]_vars

----------------------------------------------------------------------------
(* C1: with previous == 0, calculate_variation returns percent variation 0 *)
(* and the classification Novo, whatever the current value (negative,     *)
(* zero, positive).                                                        *)
C1_ZeroBaselineIsNovo ==
    (pc = "done" /\ args.previous = Num(0) /\ args.current.t = "int")
        => /\ ~ret.raised
           /\ ret.variation = Zero
           /\ ret.description.kind = "Novo"

C1_Witness ==
    /\ pc = "done"
    /\ args.previous = Num(0)
    /\ args.current = Num(-MaxVal)
    /\ ret.description.kind = "Novo"

(* C2: with previous != 0, the variation is (current - previous) /        *)
(* previous * 100, the classification is decided by its sign alone         *)
(* (Aumento > 0, Queda < 0, Sem variação == 0) and the description carries *)
(* the absolute value of the variation to one decimal.                     *)
C2_VariationAndSign ==
    (pc = "done" /\ args.current.t = "int" /\ args.previous.t = "int"
        /\ args.previous.n # 0)
        => LET c == args.current.n
               p == args.previous.n
               v == ret.variation
               d == ret.description
           IN  /\ ~ret.raised
               /\ v.den > 0
               /\ v.num * p = 100 * (c - p) * v.den
               /\ d.kind \in {"Aumento", "Queda", "Sem variação"}
               /\ (d.kind = "Aumento") = (v.num > 0)
               /\ (d.kind = "Queda") = (v.num < 0)
               /\ (d.kind = "Sem variação") = (v.num = 0)
               /\ (d.kind # "Sem variação"
                      => 2 * Abs(d.tenths * v.den - 10 * Abs(v.num)) <= v.den)

C2_Witness ==
    /\ pc = "done"
    /\ args.current = Num(4)
    /\ args.previous = Num(5)
    /\ ret.description = Desc("Queda", 200)

(* C3: calculate_variation has no error outcome: an absent value (None or  *)
(* NaN) is treated as zero and a result is always returned.                *)
AsZero(v) == IF v.t = "int" THEN v ELSE Num(0)

C3_AbsentIsZero ==
    pc = "done"
        => /\ ~ret.raised
           /\ ret = calculate_variation(AsZero(args.current), AsZero(args.previous))


----------------------------------------------------------------------------
(* EmailFormatter.get_metric_yoy *)

\* f"{self.current_year - 1}-{str(self.current_month).zfill(2)}"
previous_year(self) == <<self.report_month[1] - 1, self.report_month[2]>>

\* df[df[col] == value]
Where(df, col, value) == SelectSeq(df, LAMBDA row : row[col] = value)

\* self.data.get(name) is None or the frame is empty
Unavailable(self, name) == name \notin DOMAIN self.data \/ self.data[name] = <<>>

Metrics(current, previous, variation, description) ==
    [raised |-> FALSE, current |-> current, previous |-> previous,
     variation |-> variation, description |-> description]

\* mutant: the last matching row is taken instead of the first
get_metric_yoy_last(self, df_name, metric_col, filter_col) ==
    IF Unavailable(self, df_name)
    THEN Metrics(Num(0), Num(0), Zero, Desc("Dados não disponíveis", 0))
    ELSE LET current_data == Where(self.data[df_name], filter_col, self.report_month)
             previous_data == Where(self.data[df_name], filter_col, previous_year(self))
             current_value ==
                 IF current_data # <<>>
                 THEN current_data[Len(current_data)][metric_col] ELSE Num(0)
             previous_value ==
                 IF previous_data # <<>>
                 THEN previous_data[Len(previous_data)][metric_col] ELSE Num(0)
             cv == calculate_variation(current_value, previous_value)
         IN  IF cv.raised
             THEN Metrics(Num(0), Num(0), Zero, Desc("Erro ao calcular", 0))
             ELSE Metrics(current_value, previous_value, cv.variation, cv.description)

\* mutant: a period without a row reads the frame's first row instead of 0
get_metric_yoy_nodefault(self, df_name, metric_col, filter_col) ==
    IF Unavailable(self, df_name)
    THEN Metrics(Num(0), Num(0), Zero, Desc("Dados não disponíveis", 0))
    ELSE LET current_data == Where(self.data[df_name], filter_col, self.report_month)
             previous_data == Where(self.data[df_name], filter_col, previous_year(self))
             current_value ==
                 IF current_data # <<>>
                 THEN current_data[1][metric_col] ELSE self.data[df_name][1][metric_col]
             previous_value ==
                 IF previous_data # <<>>
                 THEN previous_data[1][metric_col] ELSE self.data[df_name][1][metric_col]
             cv == calculate_variation(current_value, previous_value)
         IN  IF cv.raised
             THEN Metrics(Num(0), Num(0), Zero, Desc("Erro ao calcular", 0))
             ELSE Metrics(current_value, previous_value, cv.variation, cv.description)

\* mutant: no try/except around the lookup, the exception leaves the method
get_metric_yoy_notry(self, df_name, metric_col, filter_col) ==
    IF Unavailable(self, df_name)
    THEN Metrics(Num(0), Num(0), Zero, Desc("Dados não disponíveis", 0))
    ELSE LET current_data == Where(self.data[df_name], filter_col, self.report_month)
             previous_data == Where(self.data[df_name], filter_col, previous_year(self))
             current_value ==
                 IF current_data # <<>> THEN current_data[1][metric_col] ELSE Num(0)
             previous_value ==
                 IF previous_data # <<>> THEN previous_data[1][metric_col] ELSE Num(0)
             cv == calculate_variation(current_value, previous_value)
         IN  [raised |-> cv.raised, current |-> current_value, previous |-> previous_value,
              variation |-> cv.variation, description |-> cv.description]

get_metric_yoy(self, df_name, metric_col, filter_col) ==
    IF Unavailable(self, df_name)
    THEN Metrics(Num(0), Num(0), Zero, Desc("Dados não disponíveis", 0))
    ELSE LET current_data == Where(self.data[df_name], filter_col, self.report_month)
             previous_data == Where(self.data[df_name], filter_col, previous_year(self))
             current_value ==
                 IF current_data # <<>> THEN current_data[1][metric_col] ELSE Num(0)
             previous_value ==
                 IF previous_data # <<>> THEN previous_data[1][metric_col] ELSE Num(0)
             cv == calculate_variation(current_value, previous_value)
         IN  IF cv.raised
             THEN Metrics(Num(0), Num(0), Zero, Desc("Erro ao calcular", 0))
             ELSE Metrics(current_value, previous_value, cv.variation, cv.description)

----------------------------------------------------------------------------
(* Specification of get_metric_yoy on one table of up to MaxRows rows *)

MaxRows == 3

MaxCell == 2

\* the report month, the same month one year earlier, and another month
OtherMonth == <<DefaultMonth[1], DefaultMonth[2] - 1>>

Periods == {DefaultMonth, <<DefaultMonth[1] - 1, DefaultMonth[2]>>, OtherMonth}

SeqsUpTo(S, n) == UNION {[1..k -> S] : k \in 0..n}

NF_TABLE == "Notas Fiscais Cadastradas - Comparação YoY"

MetricRows ==
    [ANO_MES : Periods, NOTAS_CADASTRADAS : {Num(k) : k \in 0..MaxCell} \cup {None}]

InitMetric ==
    /\ pc = "start"
    /\ JobIdle
    /\ RestIdle
    /\ report_month = DefaultMonth
    /\ \/ data = NoData
       \/ \E df \in SeqsUpTo(MetricRows, MaxRows) :
              data = [name \in {NF_TABLE} |-> df]
    /\ args = [df_name |-> NF_TABLE, metric_col |-> "NOTAS_CADASTRADAS"]
    /\ ret = Unset

CallGetMetricYoy ==
    /\ pc = "start"
    /\ pc' = "done"
    /\ ret' = get_metric_yoy(Self, args.df_name, args.metric_col, "ANO_MES")
    /\ UNCHANGED <<data, report_month, args, jobvars, restvars>>

NextMetric == CallGetMetricYoy

SpecMetric == InitMetric /\ [][NextMetric]_vars

\* the table handed to get_metric_yoy, when it is present and not empty
TheTable == data[args.df_name]

Present == args.df_name \in DOMAIN data /\ data[args.df_name] # <<>>

WellFormed(df) == \A i \in 1..Len(df) : df[i][args.metric_col].t = "int"

HasRow(df, period) == \E i \in 1..Len(df) : df[i].ANO_MES = period

\* v is the value of the first row of the period, or 0 when there is none
IsFirstMatch(df, period, v) ==
    \/ /\ ~HasRow(df, period)
       /\ v = Num(0)
    \/ \E i \in 1..Len(df) :
          /\ df[i].ANO_MES = period
          /\ \A j \in 1..(i - 1) : df[j].ANO_MES # period
          /\ v = df[i][args.metric_col]

(* C4: for the report month and for the previous-year month alike, the     *)
(* lookup of get_metric_yoy returns the value of the first row, in row     *)
(* order, whose period column equals the period, and 0 when no row does.   *)
C4_FirstMatchOrZero ==
    (pc = "done" /\ Present /\ WellFormed(TheTable))
        => /\ IsFirstMatch(TheTable, report_month, ret.current)
           /\ IsFirstMatch(TheTable, previous_year(Self), ret.previous)

C4_Witness ==
    /\ pc = "done"
    /\ Present
    /\ Len(TheTable) = 3
    /\ TheTable[1].ANO_MES = OtherMonth
    /\ TheTable[2] = [ANO_MES |-> report_month, NOTAS_CADASTRADAS |-> Num(2)]
    /\ TheTable[3] = [ANO_MES |-> report_month, NOTAS_CADASTRADAS |-> Num(1)]
    /\ ret.current = Num(2)
    /\ ret.previous = Num(0)

(* C5 (as claimed): when a present table has no row for a period (the      *)
(* report month or the previous-year month), that period's value is 0 and  *)
(* the comparison is classified Novo.                                      *)
C5_MissingRowIsNovo ==
    (pc = "done" /\ Present /\ WellFormed(TheTable))
        => /\ (~HasRow(TheTable, report_month)
                  => ret.current = Num(0) /\ ret.description.kind = "Novo")
           /\ (~HasRow(TheTable, previous_year(Self))
                  => ret.previous = Num(0) /\ ret.description.kind = "Novo")

(* C5 (amended): a period without a row counts as 0 and no error results;  *)
(* the comparison is Novo when the previous-year row is the missing one    *)
(* (or holds 0); when only the report month's row is missing and the       *)
(* previous-year value is not 0 the comparison is a Queda of 100.0%.      *)
C5_MissingRowIsZero ==
    (pc = "done" /\ Present /\ WellFormed(TheTable))
        => /\ ret.description.kind \notin {"Erro ao calcular", "Dados não disponíveis"}
           /\ (~HasRow(TheTable, report_month) => ret.current = Num(0))
           /\ (~HasRow(TheTable, previous_year(Self))
                  => ret.previous = Num(0) /\ ret.description.kind = "Novo")
           /\ (~HasRow(TheTable, report_month) /\ HasRow(TheTable, previous_year(Self))
                  => IF ret.previous.n # 0
                     THEN ret.description = Desc("Queda", 1000)
                     ELSE ret.description.kind = "Novo")

C5_Witness ==
    /\ pc = "done"
    /\ Present
    /\ WellFormed(TheTable)
    /\ ~HasRow(TheTable, report_month)
    /\ HasRow(TheTable, previous_year(Self))
    /\ ret.current = Num(0)
    /\ ret.previous = Num(2)
    /\ ret.description = Desc("Queda", 1000)


----------------------------------------------------------------------------
(* pandas helpers *)

\* mutant: only the first row is counted
ColSum_first(df, col) == IF df = <<>> THEN 0 ELSE df[1][col]

\* Series.sum()
RECURSIVE ColSum(_, _)
ColSum(df, col) == IF df = <<>> THEN 0 ELSE df[1][col] + ColSum(Tail(df), col)

\* insert row behind every row of s whose col is >= row's (s is sorted descending)
InsertDesc(s, row, col) ==
    LET k == Cardinality({i \in 1..Len(s) : s[i][col] >= row[col]})
    IN  SubSeq(s, 1, k) \o <<row>> \o SubSeq(s, k + 1, Len(s))

\* rows by col descending, rows of equal col in their original order
RECURSIVE SortDesc(_, _)
SortDesc(df, col) ==
    IF df = <<>> THEN <<>>
    ELSE InsertDesc(SortDesc(SubSeq(df, 1, Len(df) - 1), col), df[Len(df)], col)

\* mutant: ascending order
nlargest_ascending(df, n, col) ==
    LET sorted == SortDesc(df, col)
        rev == [i \in 1..Len(sorted) |-> sorted[Len(sorted) + 1 - i]]
    IN  SubSeq(rev, 1, IF n < Len(rev) THEN n ELSE Len(rev))

\* mutant: n is ignored, every row is kept
nlargest_unbounded(df, n, col) == SortDesc(df, col)

\* DataFrame.nlargest(n, col), keep='first'
nlargest(df, n, col) ==
    LET sorted == SortDesc(df, col)
    IN  SubSeq(sorted, 1, IF n < Len(sorted) THEN n ELSE Len(sorted))

----------------------------------------------------------------------------
(* EmailFormatter._format_cupons_section and _format_cupons_table *)

CUPONS_TABLE == "Cupons Emitidos e Consumidos - Comparação YoY"

CAT_CUPONS_TABLE == "Cupons Emitidos e Consumidos por Categoria"

CategoriasCupom == <<"SHOPPING", "ESTACIONAMENTO", "IGUATEMI HALL", "LOJA", "CINEMA">>

\* mutant: a zero denominator reads as 100% instead of 0
PctOrZero_noguard(a, b) == IF b # 0 THEN Frac(100 * a, b) ELSE Frac(100, 1)

\* (a / b * 100) if b > 0 else 0
PctOrZero(a, b) == IF b > 0 THEN Frac(100 * a, b) ELSE Zero

CatLine(cat, emitidos, consumidos) ==
    [sec |-> "cupons", kind |-> "cupons_categoria", cat |-> cat,
     emitidos |-> format_number(Num(emitidos)),
     consumidos |-> format_number(Num(consumidos)),
     taxa |-> Fmt1(PctOrZero(consumidos, emitidos))]

\* the loop over the five categories, from category i on: the lines and the totals
RECURSIVE CuponsLoop(_, _)
CuponsLoop(current_data, i) ==
    IF i > Len(CategoriasCupom)
    THEN [lines |-> <<>>, total_emitidos |-> 0, total_consumidos |-> 0]
    ELSE LET cat_current == Where(current_data, "CATEGORIA_CUPOM", CategoriasCupom[i])
             rest == CuponsLoop(current_data, i + 1)
         IN  IF cat_current = <<>> THEN rest
             ELSE [lines |->
                       <<CatLine(CategoriasCupom[i], cat_current[1].EMITIDOS,
                                 cat_current[1].CONSUMIDO)>> \o rest.lines,
                   total_emitidos |-> cat_current[1].EMITIDOS + rest.total_emitidos,
                   total_consumidos |-> cat_current[1].CONSUMIDO + rest.total_consumidos]

_format_cupons_table(self, df) ==
    LET current_data == Where(df, "ANO_MES", self.report_month)
        previous_data == Where(df, "ANO_MES", previous_year(self))
        loop == CuponsLoop(current_data, 1)
        total_emitidos == loop.total_emitidos
        total_consumidos == loop.total_consumidos
        prev_emitidos == ColSum(previous_data, "EMITIDOS")
        prev_consumidos == ColSum(previous_data, "CONSUMIDO")
    IN  <<[sec |-> "cupons", kind |-> "cupons_tabela", label |-> "Jun/25"]>>
        \o loop.lines
        \o <<[sec |-> "cupons", kind |-> "cupons_total", label |-> "Total Jun/25",
              emitidos |-> format_number(Num(total_emitidos)),
              consumidos |-> format_number(Num(total_consumidos)),
              taxa |-> Fmt1(PctOrZero(total_consumidos, total_emitidos))]>>
        \o (IF previous_data = <<>> THEN <<>>
            ELSE <<[sec |-> "cupons", kind |-> "separador"],
                   [sec |-> "cupons", kind |-> "total_anterior", label |-> "Total Jun/24",
                    emitidos |-> format_number(Num(prev_emitidos)),
                    consumidos |-> format_number(Num(prev_consumidos)),
                    taxa |-> Fmt1(PctOrZero(prev_consumidos, prev_emitidos))],
                   [sec |-> "cupons", kind |-> "crescimento",
                    emitidos |-> Fmt1(PctOrZero(total_emitidos - prev_emitidos,
                                                prev_emitidos)),
                    consumidos |-> Fmt1(PctOrZero(total_consumidos - prev_consumidos,
                                                  prev_consumidos))]>>)

\* <Mês>'<yy> of format_month_name
format_month_name(month) == [month |-> month[2], yy |-> month[1] % 100]

TopCupomLine(row) ==
    [sec |-> "cupons", kind |-> "cupom", descricao |-> row.DESCRICAO,
     emitidos |-> format_number(Num(row.EMITIDOS)),
     consumidos |-> format_number(Num(row.CONSUMIDO))]

_format_cupons_section(self) ==
    LET current_cupons ==
            IF Unavailable(self, CUPONS_TABLE) THEN <<>>
            ELSE Where(self.data[CUPONS_TABLE], "ANO_MES", self.report_month)
        top_cupons == nlargest(current_cupons, 3, "EMITIDOS")
    IN  <<[sec |-> "cupons", kind |-> "cupons_titulo", month |-> self.report_month[2]],
          [sec |-> "cupons", kind |-> "cupons_texto"]>>
        \o (IF current_cupons = <<>> THEN <<>>
            ELSE <<[sec |-> "cupons", kind |-> "mais_emitidos",
                    month |-> format_month_name(self.report_month)],
                   [sec |-> "cupons", kind |-> "mais_emitidos_texto"]>>
                 \o [i \in 1..Len(top_cupons) |-> TopCupomLine(top_cupons[i])])
        \o (IF Unavailable(self, CAT_CUPONS_TABLE) THEN <<>>
            ELSE <<[sec |-> "cupons", kind |-> "emissao_consumo",
                    month |-> format_month_name(self.report_month),
                    previous |-> format_month_name(previous_year(self))]>>
                 \o _format_cupons_table(self, self.data[CAT_CUPONS_TABLE]))

----------------------------------------------------------------------------
(* Specification of the coupon section on coupon tables of up to           *)
(* MaxCupomRows rows                                                       *)

MaxCupomRows == 4

PrevMonth == <<DefaultMonth[1] - 1, DefaultMonth[2]>>

CupomRow(month, cat, emitidos, consumidos) ==
    [ANO_MES |-> month, CATEGORIA_CUPOM |-> cat,
     EMITIDOS |-> emitidos, CONSUMIDO |-> consumidos]

CupomRows ==
    {CupomRow(DefaultMonth, "SHOPPING", 2, 1),
     CupomRow(DefaultMonth, "SHOPPING", 0, 0),
     CupomRow(DefaultMonth, "ESTACIONAMENTO", 1500, 300),
     CupomRow(DefaultMonth, "IGUATEMI HALL", 7, 1),
     CupomRow(DefaultMonth, "CINEMA", 3, 3),
     CupomRow(DefaultMonth, "LOJA", 0, 0),
     CupomRow(DefaultMonth, "OUTROS", 5, 2),
     CupomRow(PrevMonth, "SHOPPING", 1, 1),
     CupomRow(PrevMonth, "OUTROS", 2, 0)}

\* all five categories, out of order, with rows of another category and year
CupomFull ==
    <<CupomRow(DefaultMonth, "CINEMA", 3, 3),
      CupomRow(PrevMonth, "LOJA", 1000, 10),
      CupomRow(DefaultMonth, "LOJA", 0, 0),
      CupomRow(DefaultMonth, "OUTROS", 5, 2),
      CupomRow(DefaultMonth, "IGUATEMI HALL", 7, 1),
      CupomRow(DefaultMonth, "SHOPPING", 2, 1),
      CupomRow(DefaultMonth, "ESTACIONAMENTO", 1500, 300),
      CupomRow(DefaultMonth, "CINEMA", 9, 9)>>

TopCupomSample ==
    <<[ANO_MES |-> DefaultMonth, DESCRICAO |-> "A", EMITIDOS |-> 5, CONSUMIDO |-> 1],
      [ANO_MES |-> PrevMonth, DESCRICAO |-> "B", EMITIDOS |-> 9, CONSUMIDO |-> 2],
      [ANO_MES |-> DefaultMonth, DESCRICAO |-> "C", EMITIDOS |-> 7, CONSUMIDO |-> 0]>>

InitCupons ==
    /\ pc = "start"
    /\ JobIdle
    /\ RestIdle
    /\ report_month = DefaultMonth
    /\ \E top \in {<<>>, TopCupomSample},
          df \in SeqsUpTo(CupomRows, MaxCupomRows) \cup {CupomFull} :
          \/ data = [name \in {CUPONS_TABLE, CAT_CUPONS_TABLE} |->
                        IF name = CUPONS_TABLE THEN top ELSE df]
          \/ df = <<>> /\ top = <<>> /\ data = NoData
    /\ args = NoArgs
    /\ ret = Unset

CallFormatCuponsSection ==
    /\ pc = "start"
    /\ pc' = "done"
    /\ ret' = _format_cupons_section(Self)
    /\ UNCHANGED <<data, report_month, args, jobvars, restvars>>

NextCupons == CallFormatCuponsSection

SpecCupons == InitCupons /\ [][NextCupons]_vars


\* the coupon-category table handed to the section, and the lines it rendered
CatCupons == data[CAT_CUPONS_TABLE]

CatCuponsPresent == CAT_CUPONS_TABLE \in DOMAIN data /\ data[CAT_CUPONS_TABLE] # <<>>

LinesOf(lines, kind) == SelectSeq(lines, LAMBDA l : l.kind = kind)

\* the position of a category in the fixed list, 0 when it is not one of the five
CatIndex(cat) ==
    IF \E i \in 1..Len(CategoriasCupom) : CategoriasCupom[i] = cat
    THEN CHOOSE i \in 1..Len(CategoriasCupom) : CategoriasCupom[i] = cat
    ELSE 0

IsCurrentOf(row, cat) == row.ANO_MES = report_month /\ row.CATEGORIA_CUPOM = cat

HasCurrent(df, cat) == \E i \in 1..Len(df) : IsCurrentOf(df[i], cat)

\* the first current-month row of a category
FirstCurrent(df, cat) ==
    df[CHOOSE i \in 1..Len(df) :
           IsCurrentOf(df[i], cat) /\ \A j \in 1..(i - 1) : ~IsCurrentOf(df[j], cat)]

\* what a category contributes to a column of the Total row
Share(df, cat, col) == IF HasCurrent(df, cat) THEN FirstCurrent(df, cat)[col] ELSE 0

FiveSum(df, col) ==
    Share(df, "SHOPPING", col) + Share(df, "ESTACIONAMENTO", col)
        + Share(df, "IGUATEMI HALL", col) + Share(df, "LOJA", col)
        + Share(df, "CINEMA", col)

\* taxa is consumed / issued * 100 to one decimal, 0.0 when nothing was issued
IsRate(taxa, consumed, issued) ==
    /\ ~taxa.neg
    /\ IF issued = 0 THEN taxa.tenths = 0
       ELSE 2 * Abs(taxa.tenths * issued - 1000 * consumed) <= issued

(* C10: the coupon category table renders only categories of the fixed     *)
(* list SHOPPING, ESTACIONAMENTO, IGUATEMI HALL, LOJA, CINEMA, in that      *)
(* order; the Total row's issued and consumed figures are the sums over    *)
(* the rendered rows of the current month; every row's conversion rate,    *)
(* the Total row's included, is consumed / issued * 100 and 0.0% when      *)
(* issued is 0.                                                            *)
C10_CouponTable ==
    (pc = "done" /\ CatCuponsPresent)
        => LET rows == LinesOf(ret, "cupons_categoria")
               total == LinesOf(ret, "cupons_total")
           IN  /\ \A i \in 1..Len(rows) :
                      /\ CatIndex(rows[i].cat) > 0
                      /\ HasCurrent(CatCupons, rows[i].cat)
                      /\ rows[i].emitidos =
                             format_number(Num(FirstCurrent(CatCupons, rows[i].cat).EMITIDOS))
                      /\ rows[i].consumidos =
                             format_number(Num(FirstCurrent(CatCupons, rows[i].cat).CONSUMIDO))
                      /\ IsRate(rows[i].taxa,
                                FirstCurrent(CatCupons, rows[i].cat).CONSUMIDO,
                                FirstCurrent(CatCupons, rows[i].cat).EMITIDOS)
               /\ \A i \in 1..(Len(rows) - 1) :
                      CatIndex(rows[i].cat) < CatIndex(rows[i + 1].cat)
               /\ \A k \in 1..Len(CategoriasCupom) :
                      HasCurrent(CatCupons, CategoriasCupom[k])
                          => \E i \in 1..Len(rows) : rows[i].cat = CategoriasCupom[k]
               /\ Len(total) = 1
               /\ total[1].emitidos = format_number(Num(FiveSum(CatCupons, "EMITIDOS")))
               /\ total[1].consumidos = format_number(Num(FiveSum(CatCupons, "CONSUMIDO")))
               /\ IsRate(total[1].taxa, FiveSum(CatCupons, "CONSUMIDO"),
                         FiveSum(CatCupons, "EMITIDOS"))

C10_Witness ==
    /\ pc = "done"
    /\ CatCuponsPresent
    /\ CatCupons = CupomFull
    /\ Len(LinesOf(ret, "cupons_categoria")) = 5
    /\ LinesOf(ret, "cupons_categoria")[4].cat = "LOJA"
    /\ LinesOf(ret, "cupons_categoria")[4].taxa = [neg |-> FALSE, tenths |-> 0]
    /\ LinesOf(ret, "cupons_total")[1].emitidos = <<"1", ".", "5", "1", "2">>
    /\ LinesOf(ret, "cupons_total")[1].consumidos = <<"3", "0", "5">>
    /\ LinesOf(ret, "cupons_total")[1].taxa = [neg |-> FALSE, tenths |-> 202]


----------------------------------------------------------------------------
(* EmailFormatter._format_top_lojas_section, _format_top_nf_table and      *)
(* _format_top_vendas_table                                                *)

TOP_COMP_TABLE == "Top 10 Lojas + Compradores Únicos"

TOP_NF_TABLE == "Top 10 Lojas + Notas Fiscais"

TOP_VENDAS_TABLE == "Top 10 Lojas + Vendas"

\* f"{x:.1f}%"
Pct(x) == [kind |-> "pct", neg |-> Fmt1(x).neg, tenths |-> Fmt1(x).tenths]

\* the rows of a store table from row i on; kind is "nf" or "vendas"
RECURSIVE TopRows(_, _, _, _, _)
TopRows(current_data, previous_data, col, kind, i) ==
    IF i > Len(current_data) THEN <<>>
    ELSE LET row == current_data[i]
             loja == row.NOME_DA_LOJA
             prev_row == Where(previous_data, "NOME_DA_LOJA", loja)
             previous == IF prev_row # <<>> THEN prev_row[1][col] ELSE 0
             variation == PctOrZero(row[col] - previous, previous)
         IN  <<[sec |-> "top", kind |-> kind, loja |-> loja,
                atual |-> IF kind = "nf" THEN format_number(Num(row[col]))
                          ELSE format_currency(Num(row[col])),
                anterior |-> IF kind = "nf" THEN format_number(Num(previous))
                             ELSE format_currency(Num(previous)),
                variacao |-> Pct(variation)]>>
             \o TopRows(current_data, previous_data, col, kind, i + 1)

_format_top_nf_table(self, df) ==
    LET current_data == nlargest(Where(df, "ANO_MES", self.report_month), 10, "NOTAS_FISCAIS")
        previous_data == Where(df, "ANO_MES", previous_year(self))
    IN  <<[sec |-> "top", kind |-> "nf_titulo"],
          [sec |-> "top", kind |-> "nf_header", atual |-> "JUN/25", anterior |-> "JUN/24"]>>
        \o TopRows(current_data, previous_data, "NOTAS_FISCAIS", "nf", 1)

_format_top_vendas_table(self, df) ==
    LET current_data == nlargest(Where(df, "ANO_MES", self.report_month), 10, "VENDAS")
        previous_data == Where(df, "ANO_MES", previous_year(self))
    IN  <<[sec |-> "top", kind |-> "vendas_titulo"],
          [sec |-> "top", kind |-> "vendas_header", atual |-> "JUN/25",
           anterior |-> "JUN/24"]>>
        \o TopRows(current_data, previous_data, "VENDAS", "vendas", 1)

_format_top_lojas_section(self) ==
    LET current_comp ==
            IF Unavailable(self, TOP_COMP_TABLE) THEN <<>>
            ELSE nlargest(Where(self.data[TOP_COMP_TABLE], "ANO_MES", self.report_month), 10,
                          "COMPRADORES_UNICOS")
    IN  <<[sec |-> "top", kind |-> "top_titulo", month |-> format_month_name(self.report_month)]>>
        \o (IF current_comp = <<>> THEN <<>>
            ELSE <<[sec |-> "top", kind |-> "comp_titulo"],
                   [sec |-> "top", kind |-> "comp_header"]>>
                 \o [i \in 1..Len(current_comp) |->
                        [sec |-> "top", kind |-> "comp",
                         loja |-> current_comp[i].NOME_DA_LOJA,
                         atual |-> format_number(Num(current_comp[i].COMPRADORES_UNICOS))]])
        \o (IF Unavailable(self, TOP_NF_TABLE) THEN <<>>
            ELSE _format_top_nf_table(self, self.data[TOP_NF_TABLE]))
        \o (IF Unavailable(self, TOP_VENDAS_TABLE) THEN <<>>
            ELSE _format_top_vendas_table(self, self.data[TOP_VENDAS_TABLE]))

----------------------------------------------------------------------------
(* Specification of the top-10 section: one store table of up to MaxLojas  *)
(* current-month rows (store names 1, 2, ...), with rows of the previous   *)
(* year and of another month before or after them                          *)

MaxLojas == 11

TopVals == {1, 2}

TopTables == {TOP_COMP_TABLE, TOP_NF_TABLE, TOP_VENDAS_TABLE}

TopCol(name) ==
    IF name = TOP_COMP_TABLE THEN "COMPRADORES_UNICOS"
    ELSE IF name = TOP_NF_TABLE THEN "NOTAS_FISCAIS" ELSE "VENDAS"

TopKind(name) ==
    IF name = TOP_COMP_TABLE THEN "comp"
    ELSE IF name = TOP_NF_TABLE THEN "nf" ELSE "vendas"

LojaRow(name, month, loja, v) ==
    [c \in {"ANO_MES", "NOME_DA_LOJA", TopCol(name)} |->
        IF c = "ANO_MES" THEN month ELSE IF c = "NOME_DA_LOJA" THEN loja ELSE v]

CurrentPart(name, vals) ==
    [i \in 1..Len(vals) |-> LojaRow(name, DefaultMonth, i, vals[i])]

OtherRows(name) ==
    {<<<<>>, <<>>>>,
     <<<<LojaRow(name, PrevMonth, 1, 0), LojaRow(name, OtherMonth, 3, 9)>>, <<>>>>,
     <<<<>>, <<LojaRow(name, PrevMonth, 2, 4), LojaRow(name, PrevMonth, 2, 5),
               LojaRow(name, PrevMonth, 50, 7), LojaRow(name, PrevMonth, 3, 1)>>>>}

InitTop ==
    /\ pc = "start"
    /\ JobIdle
    /\ RestIdle
    /\ report_month = DefaultMonth
    /\ \/ data = NoData
       \/ \E name \in TopTables, vals \in SeqsUpTo(TopVals, MaxLojas) :
             \E other \in OtherRows(name) :
                data = [n \in {name} |-> other[1] \o CurrentPart(name, vals) \o other[2]]
    /\ args = NoArgs
    /\ ret = Unset

CallFormatTopLojasSection ==
    /\ pc = "start"
    /\ pc' = "done"
    /\ ret' = _format_top_lojas_section(Self)
    /\ UNCHANGED <<data, report_month, args, jobvars, restvars>>

NextTop == CallFormatTopLojasSection

SpecTop == InitTop /\ [][NextTop]_vars


\* the store table of the context, when there is one
TopName == CHOOSE name \in TopTables : name \in DOMAIN data

TopPresent == \E name \in TopTables : name \in DOMAIN data

TopTable == data[TopName]

\* the ranking lines rendered for the table
Ranking == LinesOf(ret, TopKind(TopName))

TopText(v) ==
    IF TopName = TOP_VENDAS_TABLE THEN format_currency(Num(v)) ELSE format_number(Num(v))

IsCurrentRow(row) == row.ANO_MES = report_month

CurrentCount == Cardinality({i \in 1..Len(TopTable) : IsCurrentRow(TopTable[i])})

Min(a, b) == IF a < b THEN a ELSE b

\* the positions in the table of the current-month rows a ranking line can stand for
PositionsOf(line) ==
    {i \in 1..Len(TopTable) :
        /\ IsCurrentRow(TopTable[i])
        /\ TopTable[i].NOME_DA_LOJA = line.loja
        /\ TopText(TopTable[i][TopCol(TopName)]) = line.atual}

PositionOf(line) == CHOOSE i \in PositionsOf(line) : TRUE

Metric(i) == TopTable[i][TopCol(TopName)]

\* row i ranks before row j: a higher metric, or the same metric and an earlier row
Before(i, j) == Metric(i) > Metric(j) \/ (Metric(i) = Metric(j) /\ i < j)

(* C8: each top-10 ranking (unique buyers, invoice count, sales value)     *)
(* renders exactly the min(10, n) current-month rows with the highest      *)
(* ranking metric, in descending order of the metric with ties in row      *)
(* order; no row of another month is rendered.                             *)
C8_TopTen ==
    (pc = "done" /\ TopPresent)
        => LET rendered == {PositionOf(Ranking[k]) : k \in 1..Len(Ranking)}
           IN  /\ Len(Ranking) = Min(10, CurrentCount)
               /\ \A k \in 1..Len(Ranking) : Cardinality(PositionsOf(Ranking[k])) = 1
               /\ \A k \in 1..(Len(Ranking) - 1) :
                      Before(PositionOf(Ranking[k]), PositionOf(Ranking[k + 1]))
               /\ \A i \in 1..Len(TopTable) :
                      (IsCurrentRow(TopTable[i]) /\ i \notin rendered)
                          => \A j \in rendered : Before(j, i)

C8_Witness ==
    /\ pc = "done"
    /\ TopPresent
    /\ TopName = TOP_VENDAS_TABLE
    /\ CurrentCount = 11
    /\ Len(TopTable) = 13
    /\ Len(Ranking) = 10
    /\ Ranking[1].loja = 4
    /\ Ranking[2].loja = 11
    /\ Ranking[3].loja = 1
    /\ Ranking[10].loja = 9
    /\ Ranking[10].atual = <<"R", "$", " ", "1", ",", "0", "0">>

\* the first previous-year row of a store, 0 when it has none
PriorValue(loja) ==
    LET hits == {i \in 1..Len(TopTable) :
                    TopTable[i].ANO_MES = previous_year(Self) /\ TopTable[i].NOME_DA_LOJA = loja}
    IN  IF hits = {} THEN 0
        ELSE Metric(CHOOSE i \in hits : \A j \in hits : i <= j)

(* C9: for each store of the invoice-count and sales-value rankings the    *)
(* prior-year value is that of the first prior-year row of the same store  *)
(* name, 0 when there is none, and the variation shown is the result of    *)
(* calculate_variation(current, prior): a store whose prior-year value is  *)
(* zero or absent is rendered with the classification Novo.                *)
C9_PriorYearCompare ==
    (pc = "done" /\ TopPresent /\ TopName # TOP_COMP_TABLE)
        => \A k \in 1..Len(Ranking) :
              LET current == Metric(PositionOf(Ranking[k]))
                  prior == PriorValue(Ranking[k].loja)
                  cv == calculate_variation(Num(current), Num(prior))
              IN  /\ Ranking[k].anterior = TopText(prior)
                  /\ IF prior = 0
                     THEN Ranking[k].variacao.kind = cv.description.kind
                     ELSE Ranking[k].variacao = Pct(cv.variation)


----------------------------------------------------------------------------
(* EmailFormatter.generate_email_body and the remaining sections.  A call  *)
(* returns [raised, lines]: raised when an exception leaves it, else the   *)
(* lines of the text in order.                                             *)

VENDAS_TABLE == "Vendas Cadastradas - Comparação YoY"

COMPRADORES_TABLE == "Compradores Únicos"

VISITAS_TABLE == "Visitas por Geral - Comparação YoY"

TKT_TABLE == "TKT Médio - Geral"

REPR_TABLE == "Representatividade - Comparação YoY"

CLIENTES_CAT_TABLE == "Clientes por Categoria"

VISITAS_CAT_TABLE == "Visitas por Categoria de Clientes - Comparação YoY"

TKT_CLIENTE_TABLE == "TKT Médio Clientes - Por Categoria de Cliente"

\* mutant: the first row of the table is read, whatever its month
Representatividade_anyrow(self) ==
    IF Unavailable(self, REPR_TABLE) THEN Zero
    ELSE PctOrZero(self.data[REPR_TABLE][1].NOTAS_FISCAIS_CADASTRADAS,
                   self.data[REPR_TABLE][1].RECEITA_IGUATEMI)

\* lines 129-137
Representatividade(self) ==
    IF Unavailable(self, REPR_TABLE) THEN Zero
    ELSE LET current_repr == Where(self.data[REPR_TABLE], "ANO_MES", self.report_month)
         IN  IF current_repr = <<>> THEN Zero
             ELSE PctOrZero(current_repr[1].NOTAS_FISCAIS_CADASTRADAS,
                            current_repr[1].RECEITA_IGUATEMI)

\* lines 159-164: one line per row of the table, in row order
ClientesCategoria(self) ==
    IF Unavailable(self, CLIENTES_CAT_TABLE) THEN <<>>
    ELSE LET cat_df == self.data[CLIENTES_CAT_TABLE]
         IN  <<[sec |-> "categoria", kind |-> "categoria_titulo",
                month |-> format_month_name(self.report_month)]>>
             \o [i \in 1..Len(cat_df) |->
                    [sec |-> "categoria", kind |-> "categoria_linha",
                     cat |-> cat_df[i].CATEGORIA_ATUAL,
                     clientes |-> format_number(Num(cat_df[i].CLIENTES))]]

CategoriasVisitas == <<"Diamante", "Ouro", "Prata", "Prospect", "Inativos">>

\* lines 176-183, from category i on
RECURSIVE VisitasLoop(_, _, _)
VisitasLoop(self, visitas_cat_df, i) ==
    IF i > Len(CategoriasVisitas) THEN [raised |-> FALSE, lines |-> <<>>]
    ELSE LET cat == CategoriasVisitas[i]
             cat_data == Where(visitas_cat_df, "CATEGORIA_ATUAL", cat)
             cur == Where(cat_data, "ANO_MES", self.report_month)
             prev == Where(cat_data, "ANO_MES", previous_year(self))
             current == IF cur # <<>> THEN cur[1].VISITAS ELSE 0
             previous == IF prev # <<>> THEN prev[1].VISITAS ELSE 0
             cv == calculate_variation(Num(current), Num(previous))
             rest == VisitasLoop(self, visitas_cat_df, i + 1)
         IN  IF cat_data = <<>> THEN rest
             ELSE IF cv.raised \/ rest.raised THEN [raised |-> TRUE, lines |-> <<>>]
             ELSE [raised |-> FALSE,
                   lines |-> <<[sec |-> "visitas", kind |-> "visitas_categoria",
                                cat |-> cat, valor |-> format_number(Num(current)),
                                description |-> cv.description]>> \o rest.lines]

\* mutant: one line per report-month row of the table, in row order
VisitasCategoria_roworder(self) ==
    IF Unavailable(self, VISITAS_CAT_TABLE) THEN [raised |-> FALSE, lines |-> <<>>]
    ELSE LET df == self.data[VISITAS_CAT_TABLE]
             cur == Where(df, "ANO_MES", self.report_month)
         IN  [raised |-> FALSE,
              lines |->
                  [i \in 1..Len(cur) |->
                      LET prev == Where(Where(df, "ANO_MES", previous_year(self)),
                                        "CATEGORIA_ATUAL", cur[i].CATEGORIA_ATUAL)
                          previous == IF prev # <<>> THEN prev[1].VISITAS ELSE 0
                      IN  [sec |-> "visitas", kind |-> "visitas_categoria",
                           cat |-> cur[i].CATEGORIA_ATUAL,
                           valor |-> format_number(Num(cur[i].VISITAS)),
                           description |->
                               calculate_variation(Num(cur[i].VISITAS),
                                                   Num(previous)).description]]]

VisitasCategoria(self) ==
    IF Unavailable(self, VISITAS_CAT_TABLE) THEN [raised |-> FALSE, lines |-> <<>>]
    ELSE VisitasLoop(self, self.data[VISITAS_CAT_TABLE], 1)

\* the literal lines 337-347 (their en dashes written as hyphens)
VendedoresTexto ==
    <<"NFs Cadastradas: 809 Notas indicadas por vendedores.",
      "Vendas Geradas pela Ação: R$ 1.059.088,88 em Notas Cadastradas.",
      "Lojas Engajadas: 362 lojas participando da ação.",
      "Top 3 Vendedores (Vendas):",
      "Talys Jóias - Carla Patricia barbosa Souza (R$ 261,8k em Notas Cadastradas)",
      "Talys Jóias - Jose Fabio Rodrigues de Melo (R$ 184,3k em Notas Cadastradas)",
      "Zara - Daniele da Silva crispim de araujo (R$ 163,3k em Notas Cadastradas)",
      "Top 3 Vendedores (NFs Cadastradas):",
      "Zara - Daniele da Silva crispim de araujo (271 Notas Cadastradas com a sua Indicação)",
      "Ezams - Regina Lucia Santiago Nogueira (74 Notas Cadastradas com a sua Indicação)",
      "Brooksfield - Ariane Patricia Silva Carvalho (45 Notas Cadastradas com a sua Indicação)">>

\* mutant: the heading carries the report month
_format_vendedores_section_month(self) ==
    <<[sec |-> "vendedores", kind |-> "vendedores_titulo",
       month |-> format_month_name(self.report_month)]>>
    \o [i \in 1..Len(VendedoresTexto) |->
           [sec |-> "vendedores", kind |-> "vendedores_linha", text |-> VendedoresTexto[i]]]

_format_vendedores_section(self) ==
    <<[sec |-> "vendedores", kind |-> "vendedores_titulo"]>>
    \o [i \in 1..Len(VendedoresTexto) |->
           [sec |-> "vendedores", kind |-> "vendedores_linha", text |-> VendedoresTexto[i]]]

CategoriasTicket == <<"Diamante", "Ouro", "Prata", "Prospect">>

\* lines 366-376, from category i on
RECURSIVE TicketLoop(_, _, _)
TicketLoop(self, tkt_cliente_df, i) ==
    IF i > Len(CategoriasTicket) THEN <<>>
    ELSE LET cat == CategoriasTicket[i]
             cat_data == Where(tkt_cliente_df, "CATEGORIA_ATUAL", cat)
             current == Where(cat_data, "ANO_MES", self.report_month)
             previous == Where(cat_data, "ANO_MES", previous_year(self))
             tkt_current == IF current # <<>> THEN current[1].TKT_MEDIO_CLIENTES ELSE 0
             tkt_previous == IF previous # <<>> THEN previous[1].TKT_MEDIO_CLIENTES ELSE 0
             variation == PctOrZero(tkt_current - tkt_previous, tkt_previous)
         IN  (IF cat_data = <<>> THEN <<>>
              ELSE <<[sec |-> "ticket", kind |-> "ticket_cliente", cat |-> cat,
                      atual |-> format_currency(Num(tkt_current)),
                      anterior |-> format_currency(Num(tkt_previous)),
                      variacao |-> Pct(variation)]>>)
             \o TicketLoop(self, tkt_cliente_df, i + 1)

_format_ticket_medio_section(self) ==
    LET tkt_metrics == get_metric_yoy(self, TKT_TABLE, "TKT_MEDIO", "ANO_MES")
    IN  IF tkt_metrics.raised THEN [raised |-> TRUE, lines |-> <<>>]
        ELSE [raised |-> FALSE,
              lines |->
                  <<[sec |-> "ticket", kind |-> "ticket_titulo",
                     month |-> self.report_month[2]],
                    [sec |-> "ticket", kind |-> "ticket_geral",
                     valor |-> format_currency(tkt_metrics.current),
                     description |-> tkt_metrics.description, anterior |-> "Jun/24"],
                    [sec |-> "ticket", kind |-> "ticket_por_cliente"],
                    [sec |-> "ticket", kind |-> "ticket_header", atual |-> "JUN/25",
                     anterior |-> "JUN/24"]>>
                  \o (IF Unavailable(self, TKT_CLIENTE_TABLE) THEN <<>>
                      ELSE TicketLoop(self, self.data[TKT_CLIENTE_TABLE], 1))
                  \o <<[sec |-> "ticket", kind |-> "ticket_por_nf"],
                       [sec |-> "ticket", kind |-> "ticket_header", atual |-> "JUN/25",
                        anterior |-> "JUN/24"],
                       [sec |-> "ticket", kind |-> "ticket_por_visita"],
                       [sec |-> "ticket", kind |-> "ticket_header", atual |-> "JUN/25",
                        anterior |-> "JUN/24"]>>]

\* mutant: the top-10 section is written before the coupons section
generate_email_body_swapped(self) ==
    LET nf_metrics == get_metric_yoy(self, NF_TABLE, "NOTAS_CADASTRADAS", "ANO_MES")
        vendas_metrics == get_metric_yoy(self, VENDAS_TABLE, "VENDAS", "ANO_MES")
        compradores_metrics ==
            get_metric_yoy(self, COMPRADORES_TABLE, "COMPRADORES_UNICOS", "ANO_MES")
        visitas_metrics == get_metric_yoy(self, VISITAS_TABLE, "VISITAS", "ANO_MES")
        tkt_metrics == get_metric_yoy(self, TKT_TABLE, "TKT_MEDIO", "ANO_MES")
        representatividade == Representatividade(self)
        month_name == format_month_name(self.report_month)
        previous_month_name == format_month_name(previous_year(self))
        visitas_cat == VisitasCategoria(self)
        ticket == _format_ticket_medio_section(self)
    IN  IF \/ nf_metrics.raised \/ vendas_metrics.raised \/ compradores_metrics.raised
           \/ visitas_metrics.raised \/ tkt_metrics.raised
           \/ visitas_cat.raised \/ ticket.raised
        THEN [raised |-> TRUE, lines |-> <<>>]
        ELSE [raised |-> FALSE,
              lines |->
                  <<[sec |-> "saudacao", kind |-> "saudacao", month |-> month_name],
                    [sec |-> "geral", kind |-> "geral_titulo", month |-> month_name.month],
                    [sec |-> "geral", kind |-> "geral_nf",
                     valor |-> format_number(nf_metrics.current),
                     description |-> nf_metrics.description, vs |-> previous_month_name],
                    [sec |-> "geral", kind |-> "geral_vendas",
                     valor |-> format_currency(vendas_metrics.current),
                     description |-> vendas_metrics.description,
                     vs |-> previous_month_name],
                    [sec |-> "geral", kind |-> "geral_representatividade",
                     valor |-> Fmt2(representatividade), month |-> month_name],
                    [sec |-> "compradores", kind |-> "compradores_titulo",
                     month |-> month_name.month],
                    [sec |-> "compradores", kind |-> "compradores_total",
                     valor |-> format_number(compradores_metrics.current),
                     description |-> compradores_metrics.description,
                     vs |-> previous_month_name]>>
                  \o ClientesCategoria(self)
                  \o <<[sec |-> "visitas", kind |-> "visitas_titulo",
                        month |-> month_name.month],
                       [sec |-> "visitas", kind |-> "visitas_geral",
                        valor |-> format_number(visitas_metrics.current),
                        description |-> visitas_metrics.description],
                       [sec |-> "visitas", kind |-> "visitas_por_categoria",
                        month |-> month_name, vs |-> previous_month_name]>>
                  \o visitas_cat.lines
                  \o _format_top_lojas_section(self)
                  \o _format_cupons_section(self)
                  \o _format_vendedores_section(self)
                  \o ticket.lines
                  \o <<[sec |-> "fim", kind |-> "fim"]>>]

generate_email_body(self) ==
    LET nf_metrics == get_metric_yoy(self, NF_TABLE, "NOTAS_CADASTRADAS", "ANO_MES")
        vendas_metrics == get_metric_yoy(self, VENDAS_TABLE, "VENDAS", "ANO_MES")
        compradores_metrics ==
            get_metric_yoy(self, COMPRADORES_TABLE, "COMPRADORES_UNICOS", "ANO_MES")
        visitas_metrics == get_metric_yoy(self, VISITAS_TABLE, "VISITAS", "ANO_MES")
        tkt_metrics == get_metric_yoy(self, TKT_TABLE, "TKT_MEDIO", "ANO_MES")
        representatividade == Representatividade(self)
        month_name == format_month_name(self.report_month)
        previous_month_name == format_month_name(previous_year(self))
        visitas_cat == VisitasCategoria(self)
        ticket == _format_ticket_medio_section(self)
    IN  IF \/ nf_metrics.raised \/ vendas_metrics.raised \/ compradores_metrics.raised
           \/ visitas_metrics.raised \/ tkt_metrics.raised
           \/ visitas_cat.raised \/ ticket.raised
        THEN [raised |-> TRUE, lines |-> <<>>]
        ELSE [raised |-> FALSE,
              lines |->
                  <<[sec |-> "saudacao", kind |-> "saudacao", month |-> month_name],
                    [sec |-> "geral", kind |-> "geral_titulo", month |-> month_name.month],
                    [sec |-> "geral", kind |-> "geral_nf",
                     valor |-> format_number(nf_metrics.current),
                     description |-> nf_metrics.description, vs |-> previous_month_name],
                    [sec |-> "geral", kind |-> "geral_vendas",
                     valor |-> format_currency(vendas_metrics.current),
                     description |-> vendas_metrics.description,
                     vs |-> previous_month_name],
                    [sec |-> "geral", kind |-> "geral_representatividade",
                     valor |-> Fmt2(representatividade), month |-> month_name],
                    [sec |-> "compradores", kind |-> "compradores_titulo",
                     month |-> month_name.month],
                    [sec |-> "compradores", kind |-> "compradores_total",
                     valor |-> format_number(compradores_metrics.current),
                     description |-> compradores_metrics.description,
                     vs |-> previous_month_name]>>
                  \o ClientesCategoria(self)
                  \o <<[sec |-> "visitas", kind |-> "visitas_titulo",
                        month |-> month_name.month],
                       [sec |-> "visitas", kind |-> "visitas_geral",
                        valor |-> format_number(visitas_metrics.current),
                        description |-> visitas_metrics.description],
                       [sec |-> "visitas", kind |-> "visitas_por_categoria",
                        month |-> month_name, vs |-> previous_month_name]>>
                  \o visitas_cat.lines
                  \o _format_cupons_section(self)
                  \o _format_top_lojas_section(self)
                  \o _format_vendedores_section(self)
                  \o ticket.lines
                  \o <<[sec |-> "fim", kind |-> "fim"]>>]


----------------------------------------------------------------------------
(* Specification of generate_email_body: every subset of the report names  *)
(* absent from the context, the tables that are present filled in one of   *)
(* several ways                                                            *)

ReportNames ==
    {NF_TABLE, VENDAS_TABLE, COMPRADORES_TABLE, VISITAS_TABLE, TKT_TABLE, REPR_TABLE,
     CLIENTES_CAT_TABLE, VISITAS_CAT_TABLE, CUPONS_TABLE, CAT_CUPONS_TABLE,
     TOP_COMP_TABLE, TOP_NF_TABLE, TOP_VENDAS_TABLE, TKT_CLIENTE_TABLE}

\* the tables read through get_metric_yoy, and the column read
MetricTables == {NF_TABLE, VENDAS_TABLE, COMPRADORES_TABLE, VISITAS_TABLE, TKT_TABLE}

MetricCol(name) ==
    IF name = NF_TABLE THEN "NOTAS_CADASTRADAS"
    ELSE IF name = VENDAS_TABLE THEN "VENDAS"
    ELSE IF name = COMPRADORES_TABLE THEN "COMPRADORES_UNICOS"
    ELSE IF name = VISITAS_TABLE THEN "VISITAS" ELSE "TKT_MEDIO"

MetricRow(name, month, value) ==
    [c \in {"ANO_MES", MetricCol(name)} |-> IF c = "ANO_MES" THEN month ELSE value]

CatRow(month, cat, col, v) ==
    [c \in {"ANO_MES", "CATEGORIA_ATUAL", col} |->
        IF c = "ANO_MES" THEN month ELSE IF c = "CATEGORIA_ATUAL" THEN cat ELSE v]

\* how the present tables are filled:
\*   full      rows of the report month and of the previous year
\*   empty     no row at all
\*   current   rows of the report month only
\*   previous  rows of the previous year only
\*   null      full, with a NULL previous-year cell in the get_metric_yoy tables
\*   nullcur   current, with a NULL report-month cell in the get_metric_yoy tables
\*   mixed     every other table empty, the rest full
Fills == {"full", "empty", "current", "previous", "null", "nullcur", "mixed"}

EmptyWhenMixed ==
    {NF_TABLE, COMPRADORES_TABLE, CLIENTES_CAT_TABLE, VISITAS_CAT_TABLE,
     CAT_CUPONS_TABLE, TOP_NF_TABLE, TKT_CLIENTE_TABLE}

FullTable(name) ==
    IF name \in MetricTables
    THEN <<MetricRow(name, DefaultMonth, Num(1200)), MetricRow(name, PrevMonth, Num(1000))>>
    ELSE IF name = REPR_TABLE
    THEN <<[ANO_MES |-> PrevMonth, RECEITA_IGUATEMI |-> 3000,
            NOTAS_FISCAIS_CADASTRADAS |-> 2000],
           [ANO_MES |-> DefaultMonth, RECEITA_IGUATEMI |-> 3000,
            NOTAS_FISCAIS_CADASTRADAS |-> 1000]>>
    ELSE IF name = CLIENTES_CAT_TABLE
    THEN <<[CATEGORIA_ATUAL |-> "Ouro", CLIENTES |-> 20],
           [CATEGORIA_ATUAL |-> "Diamante", CLIENTES |-> 5],
           [CATEGORIA_ATUAL |-> "Colaborador", CLIENTES |-> 3]>>
    ELSE IF name = VISITAS_CAT_TABLE
    THEN <<CatRow(DefaultMonth, "Prata", "VISITAS", 30),
           CatRow(DefaultMonth, "Diamante", "VISITAS", 10),
           CatRow(PrevMonth, "Diamante", "VISITAS", 8),
           CatRow(PrevMonth, "Ouro", "VISITAS", 4)>>
    ELSE IF name = CUPONS_TABLE THEN TopCupomSample
    ELSE IF name = CAT_CUPONS_TABLE THEN CupomFull
    ELSE IF name = TKT_CLIENTE_TABLE
    THEN <<CatRow(DefaultMonth, "Ouro", "TKT_MEDIO_CLIENTES", 300),
           CatRow(PrevMonth, "Ouro", "TKT_MEDIO_CLIENTES", 250),
           CatRow(PrevMonth, "Prata", "TKT_MEDIO_CLIENTES", 100),
           CatRow(DefaultMonth, "Inativos", "TKT_MEDIO_CLIENTES", 50)>>
    ELSE <<LojaRow(name, PrevMonth, 2, 4)>> \o CurrentPart(name, <<1, 2, 2>>)

Sample(name, fill) ==
    IF fill = "empty" \/ (fill = "mixed" /\ name \in EmptyWhenMixed) THEN <<>>
    ELSE IF fill \in {"full", "mixed"} \/ name = CLIENTES_CAT_TABLE THEN FullTable(name)
    ELSE IF fill = "null" /\ name \in MetricTables
    THEN <<MetricRow(name, DefaultMonth, Num(1200)), MetricRow(name, PrevMonth, None)>>
    ELSE IF fill = "nullcur" /\ name \in MetricTables
    THEN <<MetricRow(name, DefaultMonth, None)>>
    ELSE IF fill \in {"current", "nullcur"}
    THEN Where(FullTable(name), "ANO_MES", DefaultMonth)
    ELSE IF fill = "previous" THEN Where(FullTable(name), "ANO_MES", PrevMonth)
    ELSE FullTable(name)

InitRender ==
    /\ pc = "start"
    /\ JobIdle
    /\ RestIdle
    /\ report_month = DefaultMonth
    /\ \E present \in SUBSET ReportNames, fill \in Fills :
          data = [name \in present |-> Sample(name, fill)]
    /\ args = NoArgs
    /\ ret = Unset

\* mutant: the render takes the tables out of the context
CallGenerateEmailBody_consuming ==
    /\ pc = "start"
    /\ pc' = "done"
    /\ ret' = generate_email_body(Self)
    /\ data' = NoData
    /\ UNCHANGED <<report_month, args, jobvars, restvars>>

CallGenerateEmailBody ==
    /\ pc = "start"
    /\ pc' = "done"
    /\ ret' = generate_email_body(Self)
    /\ UNCHANGED <<data, report_month, args, jobvars, restvars>>

NextRender == CallGenerateEmailBody

SpecRender == InitRender /\ [][NextRender]_vars


\* the formatter with one more table in its context
WithTable(name) ==
    [data |-> [n \in DOMAIN data \cup {name} |->
                  IF n = name THEN FullTable(name) ELSE data[n]],
     report_month |-> report_month]

\* the lines that do not belong to a section
Outside(lines, sec) == SelectSeq(lines, LAMBDA l : l.sec # sec)

(* C6: when 'Clientes por Categoria' is absent from the context,           *)
(* generate_email_body does not raise, emits a 'data unavailable'          *)
(* placeholder in the category breakdown section, and renders every other  *)
(* section exactly as it does with the table present.                      *)
C6_CategoryPlaceholder ==
    (pc = "done" /\ CLIENTES_CAT_TABLE \notin DOMAIN data)
        => /\ ~ret.raised
           /\ \E i \in 1..Len(ret.lines) : ret.lines[i].sec = "categoria"
           /\ Outside(ret.lines, "categoria")
                  = Outside(generate_email_body(WithTable(CLIENTES_CAT_TABLE)).lines,
                            "categoria")

\* the lookup of a get_metric_yoy table meets a NULL it cannot compute with
Faulty(name) ==
    /\ name \in DOMAIN data
    /\ data[name] # <<>>
    /\ LET cur == Where(data[name], "ANO_MES", report_month)
           prev == Where(data[name], "ANO_MES", <<report_month[1] - 1, report_month[2]>>)
           c == IF cur = <<>> THEN Num(0) ELSE cur[1][MetricCol(name)]
           p == IF prev = <<>> THEN Num(0) ELSE prev[1][MetricCol(name)]
       IN  p # Num(0) /\ (c = None \/ p = None)

MetricLineKind(name) ==
    IF name = NF_TABLE THEN "geral_nf"
    ELSE IF name = VENDAS_TABLE THEN "geral_vendas"
    ELSE IF name = COMPRADORES_TABLE THEN "compradores_total"
    ELSE IF name = VISITAS_TABLE THEN "visitas_geral" ELSE "ticket_geral"

ZeroText(name) ==
    IF name \in {VENDAS_TABLE, TKT_TABLE} THEN <<"R", "$", " ", "0", ",", "0", "0">>
    ELSE <<"0">>

(* C7: whatever subset of the report names is absent or empty,             *)
(* generate_email_body returns a text and no exception leaves it; a fault  *)
(* inside a metric lookup is caught there and shows as zeros with the      *)
(* description 'Erro ao calcular'.                                         *)
C7_NoExceptionEscapes ==
    pc = "done"
        => /\ ~ret.raised
           /\ Len(ret.lines) > 0
           /\ ret.lines[Len(ret.lines)].kind = "fim"
           /\ \A name \in MetricTables :
                  Faulty(name)
                      => \A i \in 1..Len(ret.lines) :
                             ret.lines[i].kind = MetricLineKind(name)
                                 => /\ ret.lines[i].valor = ZeroText(name)
                                    /\ ret.lines[i].description.kind = "Erro ao calcular"

C7_Witness ==
    /\ pc = "done"
    /\ Faulty(NF_TABLE)
    /\ DOMAIN data = {NF_TABLE, TOP_VENDAS_TABLE}
    /\ ~ret.raised
    /\ LinesOf(ret.lines, "geral_nf")[1].description.kind = "Erro ao calcular"
    /\ LinesOf(ret.lines, "geral_vendas")[1].description.kind = "Dados não disponíveis"
    /\ Len(LinesOf(ret.lines, "vendas")) = 3

\* the parts of C6 that hold of the code
C6_OtherSectionsUnchanged ==
    (pc = "done" /\ CLIENTES_CAT_TABLE \notin DOMAIN data)
        => /\ ~ret.raised
           /\ Outside(ret.lines, "categoria")
                  = Outside(generate_email_body(WithTable(CLIENTES_CAT_TABLE)).lines,
                            "categoria")

----------------------------------------------------------------------------
(* Clients by category                                                     *)

\* the categories of the 'Clientes por Categoria' lines of the report, in order
CategoriaLinhas ==
    LET ls == LinesOf(ret.lines, "categoria_linha")
    IN  [i \in 1..Len(ls) |-> ls[i].cat]

\* the categories of the enumeration that have a row in the table, in
\* enumeration order
CategoriasPresentes(df) ==
    SelectSeq(CategoriasVisitas,
              LAMBDA cat : \E i \in 1..Len(df) : df[i].CATEGORIA_ATUAL = cat)

(* C11: the clients-by-category section has one line per category of       *)
(* Diamante, Ouro, Prata, Prospect, Inativos that is present in the table, *)
(* in that order whatever the row order, nothing for an absent category,   *)
(* and no line for a row whose tier is outside the enumeration.            *)
C11_CategoryEnumerationOrder ==
    (pc = "done" /\ ~Unavailable(Self, CLIENTES_CAT_TABLE))
        => CategoriaLinhas = CategoriasPresentes(data[CLIENTES_CAT_TABLE])

----------------------------------------------------------------------------
(* Specification of generate_email_body over the report months: the report *)
(* month ranges over the months of several years, and the tables hold rows *)
(* of that month and of the same month one year earlier                    *)

LastYear == 2026

ReportMonths == ((DefaultMonth[1] - 1)..LastYear) \X (1..12)

\* the sample table with its two periods moved to the month and to the same
\* month of the year before
Shift(df, month) ==
    [i \in 1..Len(df) |->
        IF "ANO_MES" \notin DOMAIN df[i] THEN df[i]
        ELSE [df[i] EXCEPT !.ANO_MES =
                 IF @ = DefaultMonth THEN month ELSE <<month[1] - 1, month[2]>>]]

\* the tables whose rendering carries a period in a header or a label
LabelTables == {CAT_CUPONS_TABLE, TOP_NF_TABLE, TOP_VENDAS_TABLE, TKT_TABLE, TKT_CLIENTE_TABLE}

InitMonth ==
    /\ pc = "start"
    /\ JobIdle
    /\ RestIdle
    /\ report_month \in ReportMonths
    /\ \E present \in SUBSET LabelTables, rest \in {{}, ReportNames \ LabelTables} :
          data = [name \in present \cup rest |-> Shift(FullTable(name), report_month)]
    /\ args = NoArgs
    /\ ret = Unset

NextMonth == CallGenerateEmailBody

SpecMonth == InitMonth /\ [][NextMonth]_vars

\* the abbreviated month names the labels are written with
Abrev ==
    <<"Jan", "Fev", "Mar", "Abr", "Mai", "Jun", "Jul", "Ago", "Set", "Out", "Nov", "Dez">>

AbrevUpper ==
    <<"JAN", "FEV", "MAR", "ABR", "MAI", "JUN", "JUL", "AGO", "SET", "OUT", "NOV", "DEZ">>

TwoDigits(n) == IF n < 10 THEN "0" \o ToString(n) ELSE ToString(n)

\* "Jun/25" for <<2025, 6>>
PeriodLabel(month) == Abrev[month[2]] \o "/" \o TwoDigits(month[1] % 100)

\* "JUN/25" for <<2025, 6>>
PeriodHeader(month) == AbrevUpper[month[2]] \o "/" \o TwoDigits(month[1] % 100)

SameMonthLastYear == <<report_month[1] - 1, report_month[2]>>

(* C12: every header and label that names a period (coupon table, top-10   *)
(* invoice and sales tables, average-ticket line and tables) shows the     *)
(* month/year of report_month or of the same month one year earlier, for   *)
(* every report_month, and no other period.                                *)
C12_PeriodLabels ==
    pc = "done"
        => \A i \in 1..Len(ret.lines) :
               LET l == ret.lines[i]
               IN  /\ l.kind = "cupons_tabela" => l.label = PeriodLabel(report_month)
                   /\ l.kind = "cupons_total"
                          => l.label = "Total " \o PeriodLabel(report_month)
                   /\ l.kind = "total_anterior"
                          => l.label = "Total " \o PeriodLabel(SameMonthLastYear)
                   /\ l.kind \in {"nf_header", "vendas_header", "ticket_header"}
                          => /\ l.atual = PeriodHeader(report_month)
                             /\ l.anterior = PeriodHeader(SameMonthLastYear)
                   /\ l.kind = "ticket_geral"
                          => l.anterior = PeriodLabel(SameMonthLastYear)

----------------------------------------------------------------------------
(* Specification of the visits by category: generate_email_body over every *)
(* table of up to MaxVisitaRows rows, in any row order                     *)

MaxVisitaRows == 3

VisitaRows ==
    {CatRow(m, c, "VISITAS", v) :
        m \in {DefaultMonth, PrevMonth},
        c \in {"Diamante", "Prata", "Inativos", "Colaborador"},
        v \in {10, 30}}
    \cup {CatRow(OtherMonth, "Inativos", "VISITAS", 10)}

InitVisitas ==
    /\ pc = "start"
    /\ JobIdle
    /\ RestIdle
    /\ report_month = DefaultMonth
    /\ \/ data = NoData
       \/ \E df \in SeqsUpTo(VisitaRows, MaxVisitaRows) :
              data = [name \in {VISITAS_CAT_TABLE} |-> df]
    /\ args = NoArgs
    /\ ret = Unset

NextVisitas == CallGenerateEmailBody

SpecVisitas == InitVisitas /\ [][NextVisitas]_vars

\* the table of visits by category, empty when it is absent
VisitasTable == IF VISITAS_CAT_TABLE \in DOMAIN data THEN data[VISITAS_CAT_TABLE] ELSE <<>>

\* the VISITAS of the first row of a category and a period, 0 without such a row
FirstVisitas(df, cat, period) ==
    LET S == {i \in 1..Len(df) : df[i].CATEGORIA_ATUAL = cat /\ df[i].ANO_MES = period}
    IN  IF S = {} THEN 0 ELSE df[CHOOSE i \in S : \A j \in S : i <= j].VISITAS

(* C13: the visits-by-category lines come in the order Diamante, Ouro,     *)
(* Prata, Prospect, Inativos whatever the row order of the table, a        *)
(* category without a row has no line, and each line shows the category's  *)
(* own report-month value with the description calculate_variation gives   *)
(* for it against the category's own previous-year value.                  *)
C13_VisitsByCategory ==
    pc = "done"
        => LET ls == LinesOf(ret.lines, "visitas_categoria")
               cats == CategoriasPresentes(VisitasTable)
           IN  /\ ~ret.raised
               /\ Len(ls) = Len(cats)
               /\ \A i \in 1..Len(ls) :
                      LET current == FirstVisitas(VisitasTable, cats[i], report_month)
                          previous == FirstVisitas(VisitasTable, cats[i], SameMonthLastYear)
                      IN  /\ ls[i].cat = cats[i]
                          /\ ls[i].valor = format_number(Num(current))
                          /\ ls[i].description
                                 = calculate_variation(Num(current), Num(previous)).description

C13_Witness ==
    /\ pc = "done"
    /\ Len(VisitasTable) = 3
    /\ VisitasTable[1] = CatRow(DefaultMonth, "Prata", "VISITAS", 10)
    /\ VisitasTable[2] = CatRow(PrevMonth, "Diamante", "VISITAS", 10)
    /\ VisitasTable[3] = CatRow(DefaultMonth, "Diamante", "VISITAS", 30)
    /\ LET ls == LinesOf(ret.lines, "visitas_categoria")
       IN  /\ Len(ls) = 2
           /\ ls[1].cat = "Diamante"
           /\ ls[1].valor = <<"3", "0">>
           /\ ls[1].description = Desc("Aumento", 2000)
           /\ ls[2].cat = "Prata"
           /\ ls[2].description.kind = "Novo"

----------------------------------------------------------------------------
(* Specification of the most issued coupons: _format_cupons_section over   *)
(* every coupon table of up to MaxTopCupons rows, each row of the report   *)
(* month or of the previous year, the rows told apart by their DESCRICAO   *)

MaxTopCupons == 5

\* the coupon table of k rows with the months ms and the issued counts es
TopCupomTable(k, ms, es) ==
    [i \in 1..k |->
        [ANO_MES |-> ms[i], DESCRICAO |-> ToString(i), EMITIDOS |-> es[i], CONSUMIDO |-> 1]]

InitMaisEmitidos ==
    /\ pc = "start"
    /\ JobIdle
    /\ RestIdle
    /\ report_month = DefaultMonth
    /\ \/ data = NoData
       \/ \E k \in 0..MaxTopCupons :
              \E ms \in [1..k -> {DefaultMonth, PrevMonth}], es \in [1..k -> 1..3] :
                  data = [name \in {CUPONS_TABLE} |-> TopCupomTable(k, ms, es)]
    /\ args = NoArgs
    /\ ret = Unset

NextMaisEmitidos == CallFormatCuponsSection

SpecMaisEmitidos == InitMaisEmitidos /\ [][NextMaisEmitidos]_vars

\* the coupon table, empty when it is absent
CuponsTable == IF CUPONS_TABLE \in DOMAIN data THEN data[CUPONS_TABLE] ELSE <<>>

\* the positions of the report-month rows of the coupon table
CurrentCupons == {i \in 1..Len(CuponsTable) : CuponsTable[i].ANO_MES = report_month}

\* the row a coupon line was written from
CupomRowOf(line) ==
    CHOOSE i \in 1..Len(CuponsTable) : CuponsTable[i].DESCRICAO = line.descricao

\* row i ranks before row j: more issued, or as many and earlier in the table
RanksBefore(i, j) ==
    \/ CuponsTable[i].EMITIDOS > CuponsTable[j].EMITIDOS
    \/ CuponsTable[i].EMITIDOS = CuponsTable[j].EMITIDOS /\ i < j

(* C14: the 'most issued coupons' list holds exactly the min(3, n) coupons *)
(* of the report month with the highest issued count, in descending order  *)
(* of issued count with ties in row order, and the list is written only    *)
(* when the coupon table has a report-month row.                           *)
C14_MostIssuedCoupons ==
    pc = "done"
        => LET ls == LinesOf(ret, "cupom")
               shown == {CupomRowOf(ls[k]) : k \in 1..Len(ls)}
           IN  /\ Len(ls) = Min(3, Cardinality(CurrentCupons))
               /\ (LinesOf(ret, "mais_emitidos") # <<>>) <=> (CurrentCupons # {})
               /\ Len(LinesOf(ret, "mais_emitidos")) <= 1
               /\ \A k \in 1..Len(ls) :
                      /\ \E i \in CurrentCupons : ls[k] = TopCupomLine(CuponsTable[i])
                      /\ CupomRowOf(ls[k]) \in CurrentCupons
               /\ \A k, l \in 1..Len(ls) :
                      k < l => RanksBefore(CupomRowOf(ls[k]), CupomRowOf(ls[l]))
               /\ \A i \in CurrentCupons \ shown : \A j \in shown : RanksBefore(j, i)

C14_Witness ==
    /\ pc = "done"
    /\ Len(CuponsTable) = 5
    /\ CurrentCupons = {1, 2, 4, 5}
    /\ [i \in 1..5 |-> CuponsTable[i].EMITIDOS] = <<2, 3, 3, 2, 3>>
    /\ [k \in 1..Len(LinesOf(ret, "cupom")) |-> LinesOf(ret, "cupom")[k].descricao]
           = <<"2", "5", "1">>

----------------------------------------------------------------------------
(* Prior-year rows of the coupon table                                     *)

\* the positions of the prior-year rows of the coupon-category table
PriorCupons ==
    IF CatCuponsPresent
    THEN {i \in 1..Len(CatCupons) : CatCupons[i].ANO_MES = SameMonthLastYear}
    ELSE {}

\* the sum of a column over the rows at the positions S
RECURSIVE SumAt(_, _, _)
SumAt(df, S, col) ==
    IF S = {} THEN 0
    ELSE LET i == CHOOSE i \in S : TRUE IN df[i][col] + SumAt(df, S \ {i}, col)

\* shown is (current - prior) / prior * 100 to one decimal, 0.0 when prior is 0
IsGrowth(shown, current, prior) ==
    IF prior = 0 THEN shown = [neg |-> FALSE, tenths |-> 0]
    ELSE /\ shown.neg <=> current < prior
         /\ 2 * Abs(shown.tenths * prior - 1000 * Abs(current - prior)) <= prior

(* C15: the coupon table has a prior-year Total row and a growth row if    *)
(* and only if the table has a prior-year row; the growth row shows        *)
(* (current total - prior total) / prior total * 100 for issued and for    *)
(* consumed, each 0 when its prior total is 0.                             *)
C15_PriorYearRows ==
    pc = "done"
        => LET prior == LinesOf(ret, "total_anterior")
               growth == LinesOf(ret, "crescimento")
           IN  /\ Len(prior) = (IF PriorCupons # {} THEN 1 ELSE 0)
               /\ Len(growth) = Len(prior)
               /\ PriorCupons # {}
                      => LET prev_emitidos == SumAt(CatCupons, PriorCupons, "EMITIDOS")
                             prev_consumidos == SumAt(CatCupons, PriorCupons, "CONSUMIDO")
                         IN  /\ prior[1].emitidos = format_number(Num(prev_emitidos))
                             /\ prior[1].consumidos = format_number(Num(prev_consumidos))
                             /\ IsGrowth(growth[1].emitidos,
                                         FiveSum(CatCupons, "EMITIDOS"), prev_emitidos)
                             /\ IsGrowth(growth[1].consumidos,
                                         FiveSum(CatCupons, "CONSUMIDO"), prev_consumidos)

C15_Witness ==
    /\ pc = "done"
    /\ CatCuponsPresent
    /\ Cardinality(PriorCupons) = 2
    /\ SumAt(CatCupons, PriorCupons, "EMITIDOS") = 3
    /\ SumAt(CatCupons, PriorCupons, "CONSUMIDO") = 1
    /\ FiveSum(CatCupons, "EMITIDOS") = 5
    /\ FiveSum(CatCupons, "CONSUMIDO") = 4
    /\ LinesOf(ret, "crescimento")[1].emitidos = [neg |-> FALSE, tenths |-> 667]
    /\ LinesOf(ret, "crescimento")[1].consumidos = [neg |-> FALSE, tenths |-> 3000]
    /\ LinesOf(ret, "total_anterior")[1].emitidos = <<"3">>

----------------------------------------------------------------------------
(* Specification of the representativeness: generate_email_body over every *)
(* representativeness table of up to MaxReprRows rows                      *)

MaxReprRows == 3

ReprRows ==
    {[ANO_MES |-> m, RECEITA_IGUATEMI |-> r, NOTAS_FISCAIS_CADASTRADAS |-> n] :
        m \in {DefaultMonth, PrevMonth}, r \in {-3, 0, 3}, n \in {1, 2}}
    \cup {[ANO_MES |-> OtherMonth, RECEITA_IGUATEMI |-> 7, NOTAS_FISCAIS_CADASTRADAS |-> 5]}

InitRepr ==
    /\ pc = "start"
    /\ JobIdle
    /\ RestIdle
    /\ report_month = DefaultMonth
    /\ \/ data = NoData
       \/ \E df \in SeqsUpTo(ReprRows, MaxReprRows) :
              data = [name \in {REPR_TABLE} |-> df]
    /\ args = NoArgs
    /\ ret = Unset

NextRepr == CallGenerateEmailBody

SpecRepr == InitRepr /\ [][NextRepr]_vars

\* the representativeness table, empty when it is absent
ReprTable == IF REPR_TABLE \in DOMAIN data THEN data[REPR_TABLE] ELSE <<>>

\* the positions of the report-month rows of the representativeness table
ReprCurrent == {i \in 1..Len(ReprTable) : ReprTable[i].ANO_MES = report_month}

FirstReprCurrent == ReprTable[CHOOSE i \in ReprCurrent : \A j \in ReprCurrent : i <= j]

(* C16: the representativeness shown is notes-registered value / total     *)
(* mall revenue * 100 of the report month's row only, to two decimals, and *)
(* 0.00 when the table is absent or empty, when it has no row of the       *)
(* report month, or when the revenue is not greater than 0.                *)
C16_Representativeness ==
    pc = "done"
        => LET shown == LinesOf(ret.lines, "geral_representatividade")
           IN  /\ Len(shown) = 1
               /\ ~shown[1].valor.neg
               /\ IF ReprCurrent = {} \/ FirstReprCurrent.RECEITA_IGUATEMI <= 0
                  THEN shown[1].valor.hundredths = 0
                  ELSE 2 * Abs(shown[1].valor.hundredths * FirstReprCurrent.RECEITA_IGUATEMI
                               - 10000 * FirstReprCurrent.NOTAS_FISCAIS_CADASTRADAS)
                           <= FirstReprCurrent.RECEITA_IGUATEMI

C16_Witness ==
    /\ pc = "done"
    /\ Len(ReprTable) = 3
    /\ ReprTable[1].ANO_MES = PrevMonth /\ ReprTable[1].NOTAS_FISCAIS_CADASTRADAS = 1
    /\ ReprTable[2].ANO_MES = DefaultMonth /\ ReprTable[2].NOTAS_FISCAIS_CADASTRADAS = 2
    /\ ReprTable[2].RECEITA_IGUATEMI = 3
    /\ ReprTable[3].ANO_MES = DefaultMonth /\ ReprTable[3].RECEITA_IGUATEMI = 0
    /\ LinesOf(ret.lines, "geral_representatividade")[1].valor
           = [neg |-> FALSE, hundredths |-> 6667]

----------------------------------------------------------------------------
(* The sales-representative section                                        *)

\* the positions of the lines of a section in the report
PositionsOfSection(sec) == {i \in 1..Len(ret.lines) : ret.lines[i].sec = sec}

\* a context to compare with: no table, the default report month
ReferenceContext == [data |-> NoData, report_month |-> DefaultMonth]

(* C17: the sales-representative section is the same text for every        *)
(* context (any data, any report_month), and it stands right after the     *)
(* top-10 section and right before the average-ticket section.             *)
C17_StaticVendedores ==
    pc = "done"
        => LET S == PositionsOfSection("vendedores")
               first == CHOOSE i \in S : \A j \in S : i <= j
               last == CHOOSE i \in S : \A j \in S : j <= i
           IN  /\ SelectSeq(ret.lines, LAMBDA l : l.sec = "vendedores")
                      = _format_vendedores_section(ReferenceContext)
               /\ _format_vendedores_section(Self)
                      = _format_vendedores_section(ReferenceContext)
               /\ S = first..last
               /\ Cardinality(S) = Len(VendedoresTexto) + 1
               /\ \A i \in 1..Len(VendedoresTexto) :
                      ret.lines[first + i].text = VendedoresTexto[i]
               /\ ret.lines[first - 1].sec = "top"
               /\ ret.lines[last + 1].sec = "ticket"
               /\ \A i \in PositionsOfSection("top") : i < first
               /\ \A i \in PositionsOfSection("ticket") : i > last

C17_Witness ==
    /\ pc = "done"
    /\ report_month = <<LastYear, 3>>
    /\ DOMAIN data = ReportNames
    /\ Cardinality(PositionsOfSection("vendedores")) = 12
    /\ \E i \in PositionsOfSection("vendedores") :
           /\ ret.lines[i].kind = "vendedores_titulo"
           /\ ret.lines[i - 1].kind = "vendas"
           /\ ret.lines[i + 12].kind = "ticket_titulo"

----------------------------------------------------------------------------
(* Specification of two renders of one context: the caller keeps the text  *)
(* of the first render and calls generate_email_body again                 *)

CallGenerateEmailBodyAgain ==
    /\ pc = "done"
    /\ pc' = "again"
    /\ args' = [first |-> ret]
    /\ ret' = generate_email_body(Self)
    /\ UNCHANGED <<data, report_month, jobvars, restvars>>

NextTwice == CallGenerateEmailBody \/ CallGenerateEmailBodyAgain

SpecTwice == InitMonth /\ [][NextTwice]_vars

----------------------------------------------------------------------------
(* The order of the sections                                               *)

SectionOrder ==
    <<"saudacao", "geral", "compradores", "categoria", "visitas", "cupons", "top",
      "vendedores", "ticket", "fim">>

\* the place of a section in the layout, 0 for a name that is no section
SectionIndex(sec) ==
    IF \E k \in 1..Len(SectionOrder) : SectionOrder[k] = sec
    THEN CHOOSE k \in 1..Len(SectionOrder) : SectionOrder[k] = sec
    ELSE 0

(* C19: whatever tables are present or absent, the sections of the report  *)
(* appear in the order greeting, overall KPIs, unique buyers, category     *)
(* breakdown, visits, coupons, top-10 rankings, sales-representative       *)
(* campaign, average ticket, closing line; a missing table never reorders  *)
(* the sections that remain.                                               *)
C19_SectionOrder ==
    pc = "done"
        => LET shown == {ret.lines[i].sec : i \in 1..Len(ret.lines)}
               layout == {SectionOrder[k] : k \in 1..Len(SectionOrder)}
           IN  /\ ~ret.raised
               /\ shown = (IF Unavailable(Self, CLIENTES_CAT_TABLE)
                           THEN layout \ {"categoria"} ELSE layout)
               /\ \A i \in 1..(Len(ret.lines) - 1) :
                      \/ ret.lines[i].sec = ret.lines[i + 1].sec
                      \/ SectionIndex(ret.lines[i].sec) < SectionIndex(ret.lines[i + 1].sec)

C19_Witness ==
    /\ pc = "done"
    /\ DOMAIN data = {CLIENTES_CAT_TABLE, CUPONS_TABLE, TOP_NF_TABLE}
    /\ data[TOP_NF_TABLE] # <<>>
    /\ \A k \in 1..Len(SectionOrder) : PositionsOfSection(SectionOrder[k]) # {}
    /\ \E i \in 1..Len(ret.lines) :
           ret.lines[i].kind = "cupom" /\ ret.lines[i + 1].kind = "top_titulo"

----------------------------------------------------------------------------
(* Specification of format_number: counts of up to MaxDigits digits        *)

MaxDigits == 7

\* the number written with the digits ds
RECURSIVE ValueOf(_)
ValueOf(ds) == IF ds = <<>> THEN 0 ELSE 10 * ValueOf(SubSeq(ds, 1, Len(ds) - 1)) + ds[Len(ds)]

Counts ==
    {ValueOf(ds) : ds \in UNION {[1..k -> {0, 1, 9}] : k \in 1..MaxDigits}}
    \cup {999, 1000, 1234, 1234567}

InitFormat ==
    /\ pc = "start"
    /\ JobIdle
    /\ RestIdle
    /\ report_month = DefaultMonth
    /\ data = NoData
    /\ \E n \in Counts : args = [value |-> Num(n)]
    /\ ret = Unset

CallFormatNumber ==
    /\ pc = "start"
    /\ pc' = "done"
    /\ ret' = format_number(args.value)
    /\ UNCHANGED <<data, report_month, args, jobvars, restvars>>

NextFormat == CallFormatNumber

SpecFormat == InitFormat /\ [][NextFormat]_vars

\* how many decimal digits a count has
RECURSIVE DigitCount(_)
DigitCount(n) == IF n < 10 THEN 1 ELSE 1 + DigitCount(n \div 10)

\* ten to the power k
RECURSIVE Pow10(_)
Pow10(k) == IF k = 0 THEN 1 ELSE 10 * Pow10(k - 1)

\* the text without its separators
Unseparated(text) == SelectSeq(text, LAMBDA c : c # ".")

(* C20: format_number writes a non-negative integer count with its digits  *)
(* grouped in threes from the right, the groups separated by '.', with no  *)
(* decimals and no other separator; a count below 1000 has no separator.   *)
C20_ThousandsGrouping ==
    pc = "done"
        => LET n == args.value.n
               d == DigitCount(n)
               bare == Unseparated(ret)
           IN  /\ Len(ret) = d + ((d - 1) \div 3)
               /\ \A i \in 1..Len(ret) :
                      IF (Len(ret) + 1 - i) % 4 = 0 THEN ret[i] = "."
                      ELSE \E k \in 0..9 : ret[i] = Digit(k)
               /\ Len(bare) = d
               /\ \A i \in 1..d : bare[i] = Digit((n \div Pow10(d - i)) % 10)
               /\ n < 1000 => ret = bare

C20_Witness ==
    /\ pc = "done"
    /\ args.value = Num(1234567)
    /\ ret = <<"1", ".", "2", "3", "4", ".", "5", "6", "7">>

----------------------------------------------------------------------------
(* Specification of format_currency: amounts n / d for the counts n and    *)
(* the denominators whose quotients a float holds without a rounding tie   *)

Amounts ==
    {Frac(n, d) : n \in Counts, d \in {1, 2, 8, 10, 100}} \cup {Frac(12345, 10)}

InitCurrency ==
    /\ pc = "start"
    /\ JobIdle
    /\ RestIdle
    /\ report_month = DefaultMonth
    /\ data = NoData
    /\ \E v \in Amounts : args = [value |-> v]
    /\ ret = Unset

CallFormatCurrency ==
    /\ pc = "start"
    /\ pc' = "done"
    /\ ret' = format_currency(args.value)
    /\ UNCHANGED <<data, report_month, args, jobvars, restvars>>

NextCurrency == CallFormatCurrency

SpecCurrency == InitCurrency /\ [][NextCurrency]_vars

\* the digit a one-character string stands for
DigitValue(c) == CHOOSE k \in 0..9 : Digit(k) = c

(* C21: format_currency writes 'R$ ', the integer part grouped in threes   *)
(* with '.', then ',' and exactly two decimal digits, the amount rounded   *)
(* to the cent; no ',' separates thousands and no '.' the decimals.        *)
C21_CurrencyFormat ==
    pc = "done"
        => LET x == args.value
               body == SubSeq(ret, 4, Len(ret))
               whole == SubSeq(body, 1, Len(body) - 3)
               bare == Unseparated(whole)
               cents == 10 * DigitValue(body[Len(body) - 1]) + DigitValue(body[Len(body)])
               units == ValueOf([i \in 1..Len(bare) |-> DigitValue(bare[i])])
           IN  /\ SubSeq(ret, 1, 3) = <<"R", "$", " ">>
               /\ Len(body) >= 4
               /\ body[Len(body) - 2] = ","
               /\ \A i \in 1..Len(whole) :
                      IF (Len(whole) + 1 - i) % 4 = 0 THEN whole[i] = "."
                      ELSE \E k \in 0..9 : whole[i] = Digit(k)
               /\ \A i \in {Len(body) - 1, Len(body)} : \E k \in 0..9 : body[i] = Digit(k)
               /\ whole[1] # "."
               /\ Len(bare) > 1 => bare[1] # "0"
               /\ 2 * Abs((100 * units + cents) * x.den - 100 * x.num) <= x.den

C21_Witness ==
    /\ pc = "done"
    /\ args.value = Frac(12345, 10)
    /\ ret = <<"R", "$", " ", "1", ".", "2", "3", "4", ",", "5", "0">>

----------------------------------------------------------------------------
(* run_report_job (src/main.py): the main thread submits one                *)
(* execute_query_and_save per query to a pool of max_workers threads,      *)
(* consumes the futures as they complete, and after the pool has shut down *)
(* writes the final status report.  One action is one step of one thread;  *)
(* a query or a spreadsheet write either succeeds or raises.               *)

NumQueries == 3

max_workers == 4

\* keys of QUERIES (src/queries.py)
QueryNames ==
    <<"Notas Fiscais Cadastradas - Comparação YoY", "Clientes por Categoria",
      "Cupons Ativos", "Compradores Únicos", "Vendas Cadastradas - Comparação YoY",
      "Top 10 Lojas + Vendas">>

QUERIES == {QueryNames[i] : i \in 1..NumQueries}

critical_queries ==
    {"Notas Fiscais Cadastradas - Comparação YoY", "Vendas Cadastradas - Comparação YoY",
     "Compradores Únicos", "Clientes por Categoria"}

\* len(df) of the DataFrame a query returns
RowsOf(name) == 10 * (CHOOSE i \in 1..Len(QueryNames) : QueryNames[i] = name)

\* lines 233-235 on the names of QueryNames: spaces become underscores
safe_names ==
    <<"Notas_Fiscais_Cadastradas_-_Comparação_YoY", "Clientes_por_Categoria",
      "Cupons_Ativos", "Compradores_Únicos", "Vendas_Cadastradas_-_Comparação_YoY",
      "Top_10_Lojas_+_Vendas">>

\* line 237: "{safe_name}_{report_month_str}.xlsx"
individual_file_name(name) ==
    safe_names[CHOOSE i \in 1..Len(QueryNames) : QueryNames[i] = name]
        \o "_" \o ToString(report_month[1]) \o "-" \o TwoDigits(report_month[2]) \o ".xlsx"

\* the status line of a saved query: the check mark, the name, the count of
\* rows, the arrow and the file name, as a sequence of words
StatusOk(name) ==
    <<"[check]", name, ":", ToString(RowsOf(name)), "linhas", "[arrow]",
      individual_file_name(name)>>

\* the status line of a failed query: the cross, the name and the error text
StatusErro(name, e) == <<"[cross]", name, ":", "ERRO", "-", e>>

\* word in s, for a status line s
Contains(s, word) == \E i \in 1..Len(s) : s[i] = word

\* the workers that hold a pool thread
Running == {q \in DOMAIN task : task[q] \notin {"unsubmitted", "queued", "done"}}

InitJob ==
    /\ RestIdle
    /\ pc = "job"
    /\ data = NoData
    /\ report_month = DefaultMonth
    /\ args = NoArgs
    /\ ret = Unset
    /\ main = "setup"
    /\ task = [q \in QUERIES |-> "unsubmitted"]
    /\ runs = [q \in QUERIES |-> 0]
    /\ futures = [q \in {} |-> <<>>]
    /\ processed = {}
    /\ dataframes_dict = [q \in {} |-> 0]
    /\ dataframes_lock = Free
    /\ status_report = <<>>
    /\ status_lock = Free
    /\ counters = [successful_queries |-> 0, failed_queries |-> 0, total_rows |-> 0]
    /\ all_critical_success = FALSE
    /\ log = <<>>

\* lines 145-205: the set-up raises and run_report_job returns
SetupFails ==
    /\ main = "setup"
    /\ main' = "finished"
    /\ log' = Append(log, [kind |-> "erro_configuracao"])
    /\ UNCHANGED <<formatter, restvars, task, runs, futures, processed, dataframes_dict,
                   dataframes_lock, status_report, status_lock, counters,
                   all_critical_success>>

\* lines 145-200 and 264-271: the set-up succeeds, every query is submitted
Submit ==
    /\ main = "setup"
    /\ main' = "as_completed"
    /\ task' = [q \in QUERIES |-> "queued"]
    /\ counters' = [successful_queries |-> 0, failed_queries |-> 0, total_rows |-> 0]
    /\ UNCHANGED <<formatter, restvars, runs, futures, processed, dataframes_dict, dataframes_lock,
                   status_report, status_lock, all_critical_success, log>>

\* the frame of a worker step
WorkerFrame == UNCHANGED <<formatter, restvars, main, processed, counters, all_critical_success, log>>

\* lines 215-226: a pool thread takes the query and runs it; engine.connect or
\* read_sql_query either returns the DataFrame or raises
StartQuery(q) ==
    /\ task[q] = "queued"
    /\ Cardinality(Running) < max_workers
    /\ runs' = [runs EXCEPT ![q] = @ + 1]
    /\ \E outcome \in {"lock_df", "except_query"} : task' = [task EXCEPT ![q] = outcome]
    /\ WorkerFrame
    /\ UNCHANGED <<futures, dataframes_dict, dataframes_lock, status_report, status_lock>>

\* mutant: the lock is taken without waiting for it
AcquireDataframesLock_nolock(q) ==
    /\ task[q] = "lock_df"
    /\ dataframes_lock' = q
    /\ task' = [task EXCEPT ![q] = "store"]
    /\ WorkerFrame
    /\ UNCHANGED <<runs, futures, dataframes_dict, status_report, status_lock>>

\* line 229: with dataframes_lock
AcquireDataframesLock(q) ==
    /\ task[q] = "lock_df"
    /\ dataframes_lock = Free
    /\ dataframes_lock' = q
    /\ task' = [task EXCEPT ![q] = "store"]
    /\ WorkerFrame
    /\ UNCHANGED <<runs, futures, dataframes_dict, status_report, status_lock>>

\* line 230: dataframes_dict[name] = df
StoreDataFrame(q) ==
    /\ task[q] = "store"
    /\ dataframes_dict' =
           [n \in DOMAIN dataframes_dict \cup {q} |->
               IF n = q THEN RowsOf(q) ELSE dataframes_dict[n]]
    /\ task' = [task EXCEPT ![q] = "unlock_df"]
    /\ WorkerFrame
    /\ UNCHANGED <<runs, futures, dataframes_lock, status_report, status_lock>>

\* the end of the with block of line 229
ReleaseDataframesLock(q) ==
    /\ task[q] = "unlock_df"
    /\ dataframes_lock' = Free
    /\ task' = [task EXCEPT ![q] = "excel"]
    /\ WorkerFrame
    /\ UNCHANGED <<runs, futures, dataframes_dict, status_report, status_lock>>

\* lines 233-242: the spreadsheet of the query is written, or the write raises
WriteExcel(q) ==
    /\ task[q] = "excel"
    /\ \E outcome \in {"lock_ok", "except_excel"} : task' = [task EXCEPT ![q] = outcome]
    /\ WorkerFrame
    /\ UNCHANGED <<runs, futures, dataframes_dict, dataframes_lock, status_report,
                   status_lock>>

\* lines 245 and 253: with status_lock, on the success path and in the except branch
AcquireStatusLock(q) ==
    /\ task[q] \in {"lock_ok", "except_query", "except_excel"}
    /\ status_lock = Free
    /\ status_lock' = q
    /\ task' = [task EXCEPT ![q] =
                   IF @ = "lock_ok" THEN "append_ok"
                   ELSE IF @ = "except_query" THEN "append_query" ELSE "append_excel"]
    /\ WorkerFrame
    /\ UNCHANGED <<runs, futures, dataframes_dict, dataframes_lock, status_report>>

\* lines 246 and 254: status_report.append
AppendStatus(q) ==
    /\ task[q] \in {"append_ok", "append_query", "append_excel"}
    /\ status_report' =
           Append(status_report,
                  IF task[q] = "append_ok" THEN StatusOk(q)
                  ELSE IF task[q] = "append_query" THEN StatusErro(q, "query")
                  ELSE StatusErro(q, "excel"))
    /\ task' = [task EXCEPT ![q] = IF @ = "append_ok" THEN "return_ok" ELSE "return_erro"]
    /\ WorkerFrame
    /\ UNCHANGED <<runs, futures, dataframes_dict, dataframes_lock, status_lock>>

\* lines 246-249 and 254-257: the lock is released and the tuple returned
\* becomes the result of the future
Return(q) ==
    /\ task[q] \in {"return_ok", "return_erro"}
    /\ status_lock' = Free
    /\ futures' =
           [n \in DOMAIN futures \cup {q} |->
               IF n # q THEN futures[n]
               ELSE IF task[q] = "return_ok"
               THEN [success |-> TRUE, name |-> q, rows |-> RowsOf(q)]
               ELSE [success |-> FALSE, name |-> q, rows |-> 0]]
    /\ task' = [task EXCEPT ![q] = "done"]
    /\ WorkerFrame
    /\ UNCHANGED <<runs, dataframes_dict, dataframes_lock, status_report>>

\* the frame of a main-thread step
MainFrame ==
    UNCHANGED <<formatter, restvars, task, runs, futures, dataframes_dict, dataframes_lock,
                status_report, status_lock>>

\* mutant: a failed query is not counted
Collect_onlysuccess(q) ==
    /\ main = "as_completed"
    /\ q \in DOMAIN futures
    /\ q \notin processed
    /\ processed' = processed \cup {q}
    /\ counters' =
           IF futures[q].success
           THEN [counters EXCEPT !.successful_queries = @ + 1,
                                 !.total_rows = @ + futures[q].rows]
           ELSE counters
    /\ MainFrame
    /\ UNCHANGED <<main, all_critical_success, log>>

\* lines 274-285: one round of the as_completed loop, for a completed future
Collect(q) ==
    /\ main = "as_completed"
    /\ q \in DOMAIN futures
    /\ q \notin processed
    /\ processed' = processed \cup {q}
    /\ counters' =
           IF futures[q].success
           THEN [counters EXCEPT !.successful_queries = @ + 1,
                                 !.total_rows = @ + futures[q].rows]
           ELSE [counters EXCEPT !.failed_queries = @ + 1]
    /\ MainFrame
    /\ UNCHANGED <<main, all_critical_success, log>>

\* lines 274 and 287-291: the loop ends when every future was consumed, the
\* executor shuts down and the totals of the pool are logged
ExitPool ==
    /\ main = "as_completed"
    /\ processed = QUERIES
    /\ main' = "phase3"
    /\ log' = log \o <<[kind |-> "arquivos_criados", n |-> counters.successful_queries],
                       [kind |-> "linhas", n |-> counters.total_rows]>>
                  \o (IF counters.failed_queries > 0
                      THEN <<[kind |-> "falharam", n |-> counters.failed_queries]>>
                      ELSE <<>>)
    /\ MainFrame
    /\ UNCHANGED <<processed, counters, all_critical_success>>

\* line 302: all(name in dataframes_dict for name in critical_queries)
Phase3CriticalCheck ==
    /\ main = "phase3"
    /\ main' = "count"
    /\ all_critical_success' = (\A name \in critical_queries : name \in DOMAIN dataframes_dict)
    /\ MainFrame
    /\ UNCHANGED <<processed, counters, log>>

\* lines 305-307: the counters are computed again, from the status lines
Phase3Count ==
    /\ main = "count"
    /\ main' = "report"
    /\ LET successful ==
               Cardinality({i \in 1..Len(status_report) :
                               Contains(status_report[i], "Sucesso")})
       IN  counters' = [counters EXCEPT !.successful_queries = successful,
                                        !.failed_queries = NumQueries - successful]
    /\ MainFrame
    /\ UNCHANGED <<processed, all_critical_success, log>>

\* lines 309-332: the final execution report
Phase3Report ==
    /\ main = "report"
    /\ main' = "finished"
    /\ log' = log
                  \o <<[kind |-> "executadas", x |-> counters.successful_queries,
                        total |-> NumQueries]>>
                  \o (IF counters.failed_queries > 0
                      THEN <<[kind |-> "com_falha", n |-> counters.failed_queries]>>
                      ELSE <<>>)
                  \o (IF all_critical_success THEN <<[kind |-> "criticas_ok"]>>
                      ELSE <<[kind |-> "criticas_faltantes",
                              missing_queries |-> critical_queries \ DOMAIN dataframes_dict]>>)
                  \o [i \in 1..NumQueries |->
                         [kind |-> "status", name |-> QueryNames[i],
                          ok |-> QueryNames[i] \in DOMAIN dataframes_dict]]
    /\ MainFrame
    /\ UNCHANGED <<processed, counters, all_critical_success>>

NextJob ==
    \/ SetupFails
    \/ Submit
    \/ \E q \in QUERIES :
          \/ StartQuery(q)
          \/ AcquireDataframesLock(q)
          \/ StoreDataFrame(q)
          \/ ReleaseDataframesLock(q)
          \/ WriteExcel(q)
          \/ AcquireStatusLock(q)
          \/ AppendStatus(q)
          \/ Return(q)
          \/ Collect(q)
    \/ ExitPool
    \/ Phase3CriticalCheck
    \/ Phase3Count
    \/ Phase3Report

SpecJob == InitJob /\ [][NextJob]_vars

\* the tasks inside the critical section of dataframes_lock
Writers == {q \in DOMAIN task : task[q] \in {"store", "unlock_df"}}

\* the main thread is past the pool: the map is read from here on
PoolOver == main \in {"phase3", "count", "report"} \/ (main = "finished" /\ processed = QUERIES)

\* C22: every write into dataframes_dict is made by a task that holds
\* dataframes_lock, at most one task is inside the critical section at a
\* time, every task has returned before the main thread reads the map, and
\* the map does not change once the main thread is past the pool.
C22_LockedWrites ==
    /\ [](/\ Cardinality(Writers) <= 1
          /\ \A q \in Writers : dataframes_lock = q
          /\ PoolOver => \A q \in QUERIES : task[q] = "done")
    /\ [][dataframes_dict' # dataframes_dict =>
             /\ ~PoolOver
             /\ \E q \in QUERIES :
                   /\ task[q] = "store"
                   /\ dataframes_lock = q
                   /\ dataframes_lock' = q
                   /\ dataframes_dict' = [n \in DOMAIN dataframes_dict \cup {q} |->
                                             IF n = q THEN RowsOf(q) ELSE dataframes_dict[n]]]_vars

\* one task writes inside the critical section while another waits for the lock
C22_Witness ==
    \E q, r \in QUERIES :
        /\ q # r
        /\ task[q] = "store"
        /\ dataframes_lock = q
        /\ task[r] = "lock_df"

\* the queries whose worker returned success / failure
Succeeded == {q \in DOMAIN futures : futures[q].success}
Failed == {q \in DOMAIN futures : ~futures[q].success}

\* the lines of the final report of one kind
ReportLines(kind) == {i \in 1..Len(log) : log[i].kind = kind}

\* C26: the final report states as X of 'Queries executadas: X/total' the
\* number of queries that completed successfully and as 'Queries com falha'
\* the number that failed, the counts accumulated from the worker results.
C26_ReportCounts ==
    (main = "finished" /\ processed = QUERIES)
        => /\ \A i \in ReportLines("executadas") :
                 /\ log[i].x = Cardinality(Succeeded)
                 /\ log[i].total = NumQueries
           /\ (ReportLines("com_falha") # {}) <=> (Failed # {})
           /\ \A i \in ReportLines("com_falha") : log[i].n = Cardinality(Failed)

\* the status lines of query q
StatusLinesOf(q) == {i \in 1..Len(status_report) : status_report[i][2] = q}

\* C27: once the pool has finished, whatever the interleaving and whichever
\* queries failed, every query was executed exactly once and left exactly
\* one line in status_report, and successful_queries + failed_queries is
\* the number of queries.
C27_ExactlyOnce ==
    PoolOver =>
        /\ \A q \in QUERIES :
              /\ runs[q] = 1
              /\ Cardinality(StatusLinesOf(q)) = 1
        /\ Len(status_report) = NumQueries
        /\ counters.successful_queries + counters.failed_queries = NumQueries
        /\ main = "phase3" =>
              /\ counters.successful_queries = Cardinality(Succeeded)
              /\ counters.failed_queries = Cardinality(Failed)

\* the pool has finished with one query failed on its read, one on its file
\* and one saved
C27_Witness ==
    /\ main = "phase3"
    /\ \E q, r, k \in QUERIES :
          /\ status_report[CHOOSE i \in StatusLinesOf(q) : TRUE] = StatusErro(q, "query")
          /\ status_report[CHOOSE i \in StatusLinesOf(r) : TRUE] = StatusErro(r, "excel")
          /\ status_report[CHOOSE i \in StatusLinesOf(k) : TRUE] = StatusOk(k)

\* C28: at the final status phase a query name is in dataframes_dict, and
\* so listed as OK, if and only if execute_query_and_save reported success
\* for it; a query that failed at any step is not in the map.
C28_MapIffSuccess ==
    (main = "finished" /\ processed = QUERIES)
        => /\ \A q \in QUERIES : (q \in DOMAIN dataframes_dict) <=> (q \in Succeeded)
           /\ \A i \in ReportLines("status") : log[i].ok <=> (log[i].name \in Succeeded)

----------------------------------------------------------------------------
(* EmailService (src/email_service.py).  A provider is its class name and  *)
(* its EmailConfig; an attempt of SMTPProvider.send ends in one of the     *)
(* outcomes of Outcomes.  providers and config are sequences in list       *)
(* order; attempts and results record what was done, in order.             *)

\* EmailConfig.max_retries, the default of the dataclass
max_retries == 3

\* a value of os.getenv that is a non-empty text; "" and "None" are false
Truthy(text) == text \notin {"", "None"}

\* lines 33-45: the fields of EmailConfig the sending depends on; a field
\* that is not given keeps its default
EmailConfig(password, app_password) ==
    [password |-> password, app_password |-> app_password, max_retries |-> max_retries]

\* mutant: the plain SMTP provider is appended first
_setup_providers_smtpfirst(EMAIL_PASSWORD, EMAIL_APP_PASSWORD) ==
    (IF Truthy(EMAIL_PASSWORD)
     THEN <<[cls |-> "SMTPProvider",
             config |-> EmailConfig(EMAIL_PASSWORD, EMAIL_APP_PASSWORD)]>>
     ELSE <<>>)
    \o (IF Truthy(EMAIL_APP_PASSWORD)
        THEN <<[cls |-> "Office365Provider",
                config |-> EmailConfig(EMAIL_APP_PASSWORD, "None")]>>
        ELSE <<>>)

\* lines 190-219: the providers built from the environment; office_config
\* is given the app password as its password and no app_password
_setup_providers(EMAIL_PASSWORD, EMAIL_APP_PASSWORD) ==
    (IF Truthy(EMAIL_APP_PASSWORD)
     THEN <<[cls |-> "Office365Provider",
             config |-> EmailConfig(EMAIL_APP_PASSWORD, "None")]>>
     ELSE <<>>)
    \o (IF Truthy(EMAIL_PASSWORD)
        THEN <<[cls |-> "SMTPProvider",
                config |-> EmailConfig(EMAIL_PASSWORD, EMAIL_APP_PASSWORD)]>>
        ELSE <<>>)

\* how one attempt ends: sent, SMTPAuthenticationError with 535 in its
\* text, another SMTPAuthenticationError, any other Exception
Outcomes == {"sent", "auth535", "auth", "error"}

\* lines 185-188: EmailService(), for each content of the two environment
\* variables, and send_notification about to be called
InitMail ==
    /\ pc = "mail"
    /\ data = NoData
    /\ report_month = DefaultMonth
    /\ args = NoArgs
    /\ ret = Unset
    /\ JobIdle
    /\ \E EMAIL_PASSWORD \in {"", "senha"}, EMAIL_APP_PASSWORD \in {"", "app"} :
          LET built == _setup_providers(EMAIL_PASSWORD, EMAIL_APP_PASSWORD)
          IN  /\ providers = [i \in 1..Len(built) |-> built[i].cls]
              /\ config = [i \in 1..Len(built) |-> built[i].config]
    /\ mail = [pc |-> "call", i |-> 0, attempt |-> 0]
    /\ attempts = <<>>
    /\ results = <<>>
    /\ sent = "unset"
    /\ today = <<>>
    /\ report_month_str = <<>>
    /\ folder_name = <<>>

MailFrame == UNCHANGED <<formatter, jobvars, datevars, providers>>

\* lines 233-237: no provider gives False, else the loop starts
SendNotification ==
    /\ mail.pc = "call"
    /\ IF providers = <<>>
       THEN /\ sent' = "False"
            /\ mail' = [mail EXCEPT !.pc = "done"]
       ELSE /\ sent' = sent
            /\ mail' = [pc |-> "provider", i |-> 1, attempt |-> 0]
    /\ MailFrame
    /\ UNCHANGED <<config, attempts, results>>

\* lines 238-242, 175-179 and 76: provider.send is called and enters its loop
ProviderSend ==
    /\ mail.pc = "provider"
    /\ mail' = [mail EXCEPT !.pc = "attempt", !.attempt = 0]
    /\ MailFrame
    /\ UNCHANGED <<config, attempts, results, sent>>

\* the entry of attempts for an attempt of the current provider
AttemptEntry(outcome) ==
    [provider |-> mail.i, attempt |-> mail.attempt,
     password |-> config[mail.i].password,
     app_password |-> config[mail.i].app_password, outcome |-> outcome]

\* mutant: a 535 error leaves the password as it is
Attempt_noswitch(outcome) ==
    /\ mail.pc = "attempt"
    /\ mail.attempt < max_retries
    /\ attempts' = Append(attempts, AttemptEntry(outcome))
    /\ IF outcome = "sent"
       THEN /\ results' = Append(results, [provider |-> mail.i, value |-> "True"])
            /\ sent' = "True"
            /\ mail' = [mail EXCEPT !.pc = "done"]
            /\ config' = config
       ELSE /\ mail' = [mail EXCEPT !.attempt = @ + 1]
            /\ config' = config
            /\ UNCHANGED <<results, sent>>
    /\ MailFrame

\* mutant: the loop goes on after a successful attempt
Attempt_noreturn(outcome) ==
    /\ mail.pc = "attempt"
    /\ mail.attempt < max_retries
    /\ attempts' = Append(attempts, AttemptEntry(outcome))
    /\ mail' = [mail EXCEPT !.attempt = @ + 1]
    /\ config' =
           IF /\ outcome = "auth535"
              /\ Truthy(config[mail.i].app_password)
              /\ mail.attempt < max_retries - 1
           THEN [config EXCEPT ![mail.i].password = config[mail.i].app_password]
           ELSE config
    /\ UNCHANGED <<results, sent>>
    /\ MailFrame

\* lines 76-112 and 242-244: one round of the loop of SMTPProvider.send.  A
\* sent message makes send, and with it send_notification, return True; a
\* 535 error with an app password and a round left moves the app password
\* into config.password; every other failure goes to the next round.
Attempt(outcome) ==
    /\ mail.pc = "attempt"
    /\ mail.attempt < max_retries
    /\ attempts' = Append(attempts, AttemptEntry(outcome))
    /\ IF outcome = "sent"
       THEN /\ results' = Append(results, [provider |-> mail.i, value |-> "True"])
            /\ sent' = "True"
            /\ mail' = [mail EXCEPT !.pc = "done"]
            /\ config' = config
       ELSE /\ mail' = [mail EXCEPT !.attempt = @ + 1]
            /\ config' =
                   IF /\ outcome = "auth535"
                      /\ Truthy(config[mail.i].app_password)
                      /\ mail.attempt < max_retries - 1
                   THEN [config EXCEPT ![mail.i].password = config[mail.i].app_password]
                   ELSE config
            /\ UNCHANGED <<results, sent>>
    /\ MailFrame

\* lines 76, 114 and 242-249: range(max_retries) is exhausted, send returns
\* False, and send_notification goes to the next provider or returns False
ReturnFalse ==
    /\ mail.pc = "attempt"
    /\ mail.attempt >= max_retries
    /\ results' = Append(results, [provider |-> mail.i, value |-> "False"])
    /\ IF mail.i < Len(providers)
       THEN /\ mail' = [pc |-> "provider", i |-> mail.i + 1, attempt |-> 0]
            /\ sent' = sent
       ELSE /\ mail' = [mail EXCEPT !.pc = "done"]
            /\ sent' = "False"
    /\ MailFrame
    /\ UNCHANGED <<config, attempts>>

NextMail ==
    \/ SendNotification
    \/ ProviderSend
    \/ \E outcome \in Outcomes : Attempt(outcome)
    \/ ReturnFalse

SpecMail == InitMail /\ [][NextMail]_vars

\* the code runs on: a call that can take a step takes it
SpecMailFair == SpecMail /\ WF_vars(NextMail)

\* C23: send_notification tries the providers one at a time in list order,
\* the Office 365 provider before the plain SMTP provider when both are
\* configured, stops at the first provider whose send returns True, and
\* returns True if and only if some provider returned True; it returns
\* False when no provider is configured or every provider returned False.
C23_ProviderFallback ==
    /\ \A k \in 1..Len(providers) : providers[k] = "Office365Provider" => k = 1
    /\ Len(results) <= Len(providers)
    /\ \A k \in 1..Len(results) :
          /\ results[k].provider = k
          /\ results[k].value = "True" => (k = Len(results) /\ mail.pc = "done")
    /\ \A k \in 1..Len(attempts) :
          /\ attempts[k].provider \in {Len(results), Len(results) + 1}
                 \/ attempts[k].provider \in {results[j].provider : j \in 1..Len(results)}
          /\ \A j \in 1..k : attempts[j].provider <= attempts[k].provider
    /\ mail.pc # "done" => sent = "unset"
    /\ mail.pc = "done" =>
          /\ sent \in {"True", "False"}
          /\ (sent = "True") <=> (\E k \in 1..Len(results) : results[k].value = "True")
          /\ sent = "False" => Len(results) = Len(providers)

\* both providers are configured, the Office 365 provider gave False after
\* its attempts and the SMTP provider then sent the message
C23_Witness ==
    /\ providers = <<"Office365Provider", "SMTPProvider">>
    /\ mail.pc = "done"
    /\ results = <<[provider |-> 1, value |-> "False"], [provider |-> 2, value |-> "True"]>>
    /\ sent = "True"

\* the attempts provider i made, in order
AttemptsOf(i) == SelectSeq(attempts, LAMBDA a : a.provider = i)

\* provider i has returned
ProviderReturned(i) == \E k \in 1..Len(results) : results[k].provider = i

C24_Bounded ==
    \A i \in 1..Len(providers) :
        LET mine == AttemptsOf(i)
        IN  /\ Len(mine) <= max_retries
            /\ \A k \in 1..Len(mine) :
                  /\ mine[k].attempt = k - 1
                  /\ mine[k].outcome = "sent" => k = Len(mine)
            /\ \A k \in 1..Len(results) :
                  results[k].provider = i =>
                      /\ (results[k].value = "True")
                             <=> (\E j \in 1..Len(mine) : mine[j].outcome = "sent")
                      /\ results[k].value = "False" => Len(mine) = max_retries
            /\ (Len(mine) = max_retries /\ mine[max_retries].outcome # "sent"
                    /\ (mail.pc = "done" \/ mail.i > i))
                   => \E k \in 1..Len(results) :
                          results[k] = [provider |-> i, value |-> "False"]

\* C24: SMTPProvider.send makes at most max_retries attempts, none after the
\* first successful one, returns True if and only if some attempt succeeded,
\* returns False after max_retries failed attempts whatever the failures
\* were, and the call always comes to its end.
C24_BoundedRetries == [](C24_Bounded) /\ <>(mail.pc = "done")

\* a provider returned False after max_retries attempts that failed in the
\* three ways
C24_Witness ==
    \E i \in 1..Len(providers) :
        /\ ProviderReturned(i)
        /\ Len(AttemptsOf(i)) = max_retries
        /\ {AttemptsOf(i)[k].outcome : k \in 1..max_retries} = {"auth535", "auth", "error"}

\* C25: when an attempt fails with a 535 authentication error, an app
\* password is configured and an attempt remains, the next attempt is made
\* with the app password, and so is every later attempt of that provider.
C25_AppPasswordSwitch ==
    \A k \in 1..Len(attempts) :
        (/\ attempts[k].outcome = "auth535"
         /\ Truthy(attempts[k].app_password)
         /\ attempts[k].attempt < max_retries - 1)
            => /\ \A j \in (k + 1)..Len(attempts) :
                     attempts[j].provider = attempts[k].provider
                         => attempts[j].password = attempts[k].app_password
               /\ \/ /\ k < Len(attempts)
                     /\ attempts[k + 1].provider = attempts[k].provider
                     /\ attempts[k + 1].attempt = attempts[k].attempt + 1
                  \/ /\ k = Len(attempts)
                     /\ mail.pc = "attempt"
                     /\ mail.i = attempts[k].provider
                     /\ mail.attempt = attempts[k].attempt + 1
                     /\ config[mail.i].password = attempts[k].app_password

\* the SMTP provider got a 535 error with the original password and made its
\* two other attempts with the app password
C25_Witness ==
    \E i \in 1..Len(providers) :
        LET mine == AttemptsOf(i)
        IN  /\ Len(mine) = max_retries
            /\ mine[1].password = "senha"
            /\ mine[1].outcome = "auth535"
            /\ \A k \in 2..max_retries : mine[k].password = "app"

----------------------------------------------------------------------------
(* The categories behind the prior-year Total row of the coupon table      *)

\* the prior-year rows of the five categories of the table
PriorCuponsOfFive == {i \in PriorCupons : CatIndex(CatCupons[i].CATEGORIA_CUPOM) > 0}

\* C29: the prior-year Total row and the growth percentages of the coupon
\* table are computed over the five categories of the current-year Total
\* row: a prior-year row of another category changes neither the prior-year
\* total nor the growth figures.
C29_PriorTotalFiveCategories ==
    (pc = "done" /\ PriorCupons # {})
        => LET prior == LinesOf(ret, "total_anterior")
               growth == LinesOf(ret, "crescimento")
               prev_emitidos == SumAt(CatCupons, PriorCuponsOfFive, "EMITIDOS")
               prev_consumidos == SumAt(CatCupons, PriorCuponsOfFive, "CONSUMIDO")
           IN  /\ prior[1].emitidos = format_number(Num(prev_emitidos))
               /\ prior[1].consumidos = format_number(Num(prev_consumidos))
               /\ IsGrowth(growth[1].emitidos, FiveSum(CatCupons, "EMITIDOS"), prev_emitidos)
               /\ IsGrowth(growth[1].consumidos, FiveSum(CatCupons, "CONSUMIDO"),
                           prev_consumidos)

----------------------------------------------------------------------------
(* The report month: run_report_job (src/main.py) and check_system         *)
(* (src/check_system.py) each compute, from datetime.today(), the YYYY-MM  *)
(* string of the report month and the name of the month folder.  A date is *)
(* [year, month, day].                                                     *)

IsLeap(year) == (year % 4 = 0 /\ year % 100 # 0) \/ year % 400 = 0

DaysIn(year, month) ==
    IF month = 2 THEN (IF IsLeap(year) THEN 29 ELSE 28)
    ELSE IF month \in {4, 6, 9, 11} THEN 30 ELSE 31

\* mutant: the month wraps to December and the year stays
relativedelta_sameyear(date, months) ==
    LET m == date.month - months
        month == IF m < 1 THEN m + 12 ELSE m
    IN  [year |-> date.year, month |-> month,
         day |-> Min(date.day, DaysIn(date.year, month))]

\* date - relativedelta(months=months), for months up to 12: the month goes
\* back, the year with it when the month passes January, and the day is cut
\* to the length of the month reached
relativedelta(date, months) ==
    LET m == date.month - months
        year == IF m < 1 THEN date.year - 1 ELSE date.year
        month == IF m < 1 THEN m + 12 ELSE m
    IN  [year |-> year, month |-> month, day |-> Min(date.day, DaysIn(year, month))]

\* strftime('%y'): the year without its century, in two digits
strftime_y(date) == TwoDigits(date.year % 100)

\* strftime('%Y-%m'), for a year of four digits
strftime_Ym(date) == ToString(date.year) \o "-" \o TwoDigits(date.month)

\* str(n)[-2:]: the last two characters of the decimal text of n
LastTwoChars(n) ==
    IF n < 10 THEN ToString(n)
    ELSE ToString((n \div 10) % 10) \o ToString(n % 10)

\* meses_nomes of run_report_job
meses_nomes ==
    <<"janeiro", "fevereiro", "março", "abril", "maio", "junho", "julho", "agosto",
      "setembro", "outubro", "novembro", "dezembro">>

\* meses_nomes of check_system
meses_nomes_check ==
    <<"janeiro", "fevereiro", "março", "abril", "maio", "junho", "julho", "agosto",
      "setembro", "outubro", "novembro", "dezembro">>

\* the run dates: every day of the last three years
RunDates ==
    {[year |-> y, month |-> m, day |-> d] :
        y \in (LastYear - 2)..LastYear, m \in 1..12, d \in 1..31}

InitDates ==
    /\ pc = "dates"
    /\ data = NoData
    /\ report_month = DefaultMonth
    /\ args = NoArgs
    /\ ret = Unset
    /\ JobIdle
    /\ providers = <<>>
    /\ config = <<>>
    /\ mail = [pc |-> "idle"]
    /\ attempts = <<>>
    /\ results = <<>>
    /\ sent = "unset"
    /\ today \in {date \in RunDates : date.day <= DaysIn(date.year, date.month)}
    /\ report_month_str = [main |-> "", check_system |-> ""]
    /\ folder_name = [main |-> "", check_system |-> ""]

\* src/main.py lines 141-164
RunReportJobDates ==
    /\ pc = "dates"
    /\ report_month_str.main = ""
    /\ LET report_date == relativedelta(today, 1)
           month_name == meses_nomes[report_date.month]
           year_short == strftime_y(report_date)
       IN  /\ report_month_str' = [report_month_str EXCEPT !.main = strftime_Ym(report_date)]
           /\ folder_name' = [folder_name EXCEPT !.main = month_name \o "'" \o year_short]
    /\ UNCHANGED <<formatter, jobvars, mailvars, today>>

\* src/check_system.py lines 17-25 and 55-71
CheckSystemDates ==
    /\ pc = "dates"
    /\ report_month_str.check_system = ""
    /\ LET report_month_ == IF today.month = 1 THEN 12 ELSE today.month - 1
           report_year == IF today.month = 1 THEN today.year - 1 ELSE today.year
           prev_month == IF today.month = 1 THEN 12 ELSE today.month - 1
           prev_year == IF today.month = 1 THEN today.year - 1 ELSE today.year
           month_name == meses_nomes_check[prev_month]
           year_short == LastTwoChars(prev_year)
       IN  /\ report_month_str' =
                  [report_month_str EXCEPT
                      !.check_system = ToString(report_year) \o "-" \o TwoDigits(report_month_)]
           /\ folder_name' =
                  [folder_name EXCEPT !.check_system = month_name \o "'" \o year_short]
    /\ UNCHANGED <<formatter, jobvars, mailvars, today>>

NextDates == RunReportJobDates \/ CheckSystemDates

SpecDates == InitDates /\ [][NextDates]_vars

\* the months of a date, counted from year 0
MonthNumber(date) == 12 * date.year + date.month

\* C30: for every run date the report month is the calendar month before
\* the run date, December of the year before for a run in January, and
\* main.py and check_system.py compute the same YYYY-MM string and the same
\* month folder name.
C30_SameReportMonth ==
    /\ report_month_str.main # "" =>
          \E y \in (LastYear - 3)..LastYear, m \in 1..12 :
              /\ 12 * y + m = MonthNumber(today) - 1
              /\ report_month_str.main = ToString(y) \o "-" \o TwoDigits(m)
              /\ today.month = 1 => (m = 12 /\ y = today.year - 1)
    /\ (report_month_str.main # "" /\ report_month_str.check_system # "") =>
          /\ report_month_str.main = report_month_str.check_system
          /\ folder_name.main = folder_name.check_system

\* both scripts ran on the 31st of a January and gave December of the year before
C30_Witness ==
    /\ today = [year |-> LastYear, month |-> 1, day |-> 31]
    /\ report_month_str.main = ToString(LastYear - 1) \o "-12"
    /\ report_month_str.check_system = ToString(LastYear - 1) \o "-12"
    /\ folder_name.main = "dezembro'" \o TwoDigits((LastYear - 1) % 100)
    /\ folder_name.check_system = folder_name.main

====
